---- MODULE Spec2Model ----
(***************************************************************************)
(* Route optimization engine of hvac_routing.py: HybridRouter with the     *)
(* VROOM solver path, the greedy fallback and mid-day re-optimization.     *)
(*                                                                         *)
(* Coordinates are restricted to one meridian: a point is an integer       *)
(* latitude step, one step being 10 km of great circle, so that the        *)
(* haversine distance, the urban travel time (30 km/h) and the rounding of *)
(* the stop fields are exact integer computations.  Clock strings "HH:MM"  *)
(* are represented by their minute of the day (0..1439), which orders them *)
(* exactly as the strings compare.  None is NoTime.                        *)
(***************************************************************************)
EXTENDS Integers, Sequences, FiniteSets, TLC

\* ------------------------------------------------------------------ bounds
MaxTechs == 2
MaxJobs == 2
MaxNewJobs == 1
MaxPoints == 3
MaxRuns == 2
MaxSkillCalls == 3

NoTime == 0 - 1

Hour == 60 * 60

\* ------------------------------------------------------- program constants
UrbanSpeed == 30
DefaultLateWindowHour == 23

\* ------------------------------------------------------------ data models
TechIdOf(i) == IF i = 1 THEN "t1" ELSE IF i = 2 THEN "t2" ELSE IF i = 3 THEN "t3" ELSE "t4"

JobIdOf(i) == IF i = 1 THEN "j1" ELSE IF i = 2 THEN "j2" ELSE IF i = 3 THEN "j3" ELSE IF i = 4 THEN "j4" ELSE "j5"

Technician(id, lat, skills, max_capacity, current_load, available_from, available_to) ==
    [id |-> id, lat |-> lat, skills |-> skills, max_capacity |-> max_capacity,
     current_load |-> current_load, available_from |-> available_from,
     available_to |-> available_to]

Job(id, lat, priority, estimated_duration, required_skills, time_window_start, time_window_end) ==
    [id |-> id, lat |-> lat, priority |-> priority,
     estimated_duration |-> estimated_duration, required_skills |-> required_skills,
     time_window_start |-> time_window_start, time_window_end |-> time_window_end]

RouteStop(job_id, technician_id, arrival_time, departure_time, travel_minutes, service_minutes, lat, distance_km) ==
    [job_id |-> job_id, technician_id |-> technician_id, arrival_time |-> arrival_time,
     departure_time |-> departure_time, travel_minutes |-> travel_minutes,
     service_minutes |-> service_minutes, lat |-> lat, distance_km |-> distance_km]

\* Technicians the caller may supply (without the id, which is positional):
\* a day technician with room for two jobs, a refrigeration technician on a
\* short shift already carrying one of two jobs, a technician already full,
\* and an evening technician.
TechKinds ==
    { Technician("", 0, {"hvac"}, 2, 0, 8 * Hour, 18 * Hour),
      Technician("", 2, {"hvac", "refrigeration"}, 2, 1, 8 * Hour, 9 * Hour),
      Technician("", 1, {"hvac", "refrigeration"}, 2, 2, 8 * Hour, 18 * Hour),
      Technician("", 0, {"hvac", "refrigeration"}, 2, 0, 21 * Hour, 24 * Hour - 60) }

\* Jobs the caller may supply (without the id): maintenance, an urgent
\* refrigeration repair, a short job with priority 0 and no skill at a
\* technician's home, a job with a time window, and a job with only a
\* window start.
JobKinds ==
    { Job("", 1, 1, 3600, {"hvac"}, NoTime, NoTime),
      Job("", 2, 5, 5400, {"hvac", "refrigeration"}, NoTime, NoTime),
      Job("", 0, 0, 1830, {}, NoTime, NoTime),
      Job("", 1, 2, 3600, {"hvac"}, 9 * Hour, 10 * Hour),
      Job("", 2, 3, 2700, {}, 8 * Hour, NoTime) }

\* Jobs that arrive during the day (without the id)
NewJobKinds ==
    { Job("", 1, 1, 3600, {"hvac"}, NoTime, NoTime) }

SeqsUpTo(S, n) == UNION { [1..k -> S] : k \in 0..n }

\* the technicians and first jobs of a working day; the third technician
\* has room for a single job
DayTechKinds ==
    { Technician("", 0, {"hvac"}, 2, 0, 8 * Hour, 18 * Hour),
      Technician("", 2, {"hvac", "refrigeration"}, 2, 1, 8 * Hour, 9 * Hour),
      Technician("", 1, {"hvac", "refrigeration"}, 1, 0, 8 * Hour, 18 * Hour) }

DayJobKinds ==
    { Job("", 1, 1, 3600, {"hvac"}, NoTime, NoTime),
      Job("", 2, 5, 5400, {"hvac", "refrigeration"}, NoTime, NoTime),
      Job("", 0, 0, 1830, {}, NoTime, NoTime) }

DayTechLists ==
    { [i \in 1..Len(ks) |-> [ks[i] EXCEPT !.id = TechIdOf(i)]] : ks \in SeqsUpTo(DayTechKinds, MaxTechs) }

DayJobLists ==
    { [i \in 1..Len(ks) |-> [ks[i] EXCEPT !.id = JobIdOf(i)]] : ks \in SeqsUpTo(DayJobKinds, MaxJobs) }

TechLists ==
    { [i \in 1..Len(ks) |-> [ks[i] EXCEPT !.id = TechIdOf(i)]] : ks \in SeqsUpTo(TechKinds, MaxTechs) }

JobLists ==
    { [i \in 1..Len(ks) |-> [ks[i] EXCEPT !.id = JobIdOf(i)]] : ks \in SeqsUpTo(JobKinds, MaxJobs) }

\* ------------------------------------------------------ generic operators
Abs(x) == IF x < 0 THEN 0 - x ELSE x

Max(a, b) == IF a >= b THEN a ELSE b

Min(a, b) == IF a <= b THEN a ELSE b

RECURSIVE SumOver(_, _)
SumOver(S, f) ==
    IF S = {} THEN 0
    ELSE LET x == CHOOSE y \in S : TRUE IN f[x] + SumOver(S \ {x}, f)

Range(s) == { s[i] : i \in 1..Len(s) }

TechIds(techs) == { techs[i].id : i \in 1..Len(techs) }

\* dict semantics: a later entry with the same key replaces an earlier one
TechById(techs, id) ==
    techs[CHOOSE i \in 1..Len(techs) : techs[i].id = id /\ \A k \in (i + 1)..Len(techs) : techs[k].id # id]

EmptySchedule == [t \in {} |-> <<>>]

StopsOf(sched) == UNION { Range(sched[t]) : t \in DOMAIN sched }

JobIdsOf(sched) == { s.job_id : s \in StopsOf(sched) }

TotalStops(sched) == SumOver(DOMAIN sched, [t \in DOMAIN sched |-> Len(sched[t])])

\* ---------------------------------------------------- distance calculations
haversine(lat1, lat2) == 10 * Abs(lat2 - lat1)

estimate_travel_seconds(distance_km) == (distance_km * 3600) \div UrbanSpeed

\* points: technician homes, then job locations
Points(techs, js) == [i \in 1..(Len(techs) + Len(js)) |->
                        IF i <= Len(techs) THEN techs[i].lat ELSE js[i - Len(techs)].lat]

build_duration_matrix(points) ==
    [i \in 1..Len(points) |-> [j \in 1..Len(points) |->
        IF i # j THEN estimate_travel_seconds(haversine(points[i], points[j])) ELSE 0]]

build_distance_matrix(points) ==
    [i \in 1..Len(points) |-> [j \in 1..Len(points) |->
        IF i # j THEN haversine(points[i], points[j]) ELSE 0]]

\* (datetime.min + timedelta(seconds=secs)).strftime("%H:%M")
ClockTime(secs) == (secs \div 60) % (24 * 60)

\* ---------------------------------------------------------------- state
VARIABLES
    technicians,     \* the caller's Technician objects (current_load is mutable)
    jobs,            \* the job list the caller passes to optimize_routes
    pc,              \* "idle", "osrm", "solver", "parsed", "greedy" or "done"
    path,            \* how the last result was produced: "none", "empty", "solver", "greedy"
    routes,          \* the schedule returned (the local routes of _greedy_fallback while it runs)
    solver_routes,   \* the local routes of _vroom_optimize
    assigned_jobs,   \* _greedy_fallback: indices of the jobs already assigned
    tech_time,       \* _greedy_fallback: departure time of each technician, seconds
    tech_pos,        \* _greedy_fallback: point index of each technician
    tech_load,       \* _greedy_fallback: load of each technician
    iter,            \* _greedy_fallback: rounds of the main loop already run
    rows_parsed,     \* stops _vroom_optimize had parsed when it raised
    existing_routes, \* reoptimize: the schedule passed by the caller
    completed_job_ids, \* reoptimize: the completed set passed by the caller
    new_jobs,        \* reoptimize: the new jobs passed by the caller
    prior_load,      \* current_load of each technician when reoptimize was called
    first_required,  \* history: the required skills each job id had when it was first planned
    completed_by,    \* history: the job ids each technician has completed so far
    call,            \* entry point of the caller's last call: "none", "optimize_routes", "reoptimize"
    osrm_url,        \* the module constant OSRM_URL ("" when the provider is not configured)
    osrm_calls,      \* requests sent to the provider during the current optimization
    osrm_response,   \* the provider's answer to the request of the current optimization
    osrm_matrix,     \* _vroom_optimize: the value osrm_duration_matrix returned
    solver_result,   \* what solution.routes held: "none", "solution" or "malformed"
    savings,         \* the last call of estimate_savings: its naive_factor and its report
    SKILL_IDS,       \* the module's dict _SKILL_IDS: skill tag -> integer id
    next_skill_id,   \* the module's counter _next_skill_id
    skill_runs,      \* the calls of _skill_to_id each optimization run has still to make
    skill_returned,  \* history: the <<tag, id>> pairs _skill_to_id has returned
    geo              \* the last calls of the distance functions: arguments and results

vars == <<technicians, jobs, pc, path, routes, solver_routes, assigned_jobs,
          tech_time, tech_pos, tech_load, iter, rows_parsed, existing_routes,
          completed_job_ids, new_jobs, prior_load, first_required, completed_by, call,
          osrm_url, osrm_calls, osrm_response, osrm_matrix, solver_result, savings, geo,
          SKILL_IDS, next_skill_id, skill_runs, skill_returned>>

skill_table == <<SKILL_IDS, next_skill_id>>

skill_vars == <<skill_table, skill_runs, skill_returned>>

\* written by no step of optimize_routes or reoptimize
other_vars == <<osrm_url, savings, geo>>

provider_vars == <<osrm_calls, osrm_response, osrm_matrix>>

history_vars == <<first_required, completed_by>>

reopt_vars == <<existing_routes, completed_job_ids, new_jobs, prior_load, history_vars>>

greedy_vars == <<assigned_jobs, tech_time, tech_pos, tech_load, iter>>

\* ------------------------------------------------------- greedy fallback
\* any() in place of all(): one matching skill is enough
CoversAny(tech, job) ==
    ~ (job.required_skills # {} /\ ~ (\E s \in job.required_skills : s \in tech.skills))

Covers(tech, job) ==
    ~ (job.required_skills # {} /\ ~ (\A s \in job.required_skills : s \in tech.skills))

\* the capacity test lets a technician at max_capacity take one more job
CandidatesOverCapacity(techs, js, assigned, load) ==
    { c \in (1..Len(js)) \X (1..Len(techs)) :
        /\ c[1] \notin assigned
        /\ ~ (load[techs[c[2]].id] > techs[c[2]].max_capacity)
        /\ Covers(techs[c[2]], js[c[1]]) }

\* the capacity test skips a technician with exactly one free slot
CandidatesUnderCapacity(techs, js, assigned, load) ==
    { c \in (1..Len(js)) \X (1..Len(techs)) :
        /\ c[1] \notin assigned
        /\ ~ (load[techs[c[2]].id] + 1 >= techs[c[2]].max_capacity)
        /\ Covers(techs[c[2]], js[c[1]]) }

\* break in place of continue: after a technician that is skipped, the later
\* technicians are not tried for the job
CandidatesUntilFirstSkip(techs, js, assigned, load) ==
    { c \in (1..Len(js)) \X (1..Len(techs)) :
        /\ c[1] \notin assigned
        /\ \A k \in 1..c[2] :
              /\ ~ (load[techs[k].id] >= techs[k].max_capacity)
              /\ Covers(techs[k], js[c[1]]) }

\* the (job index, technician index) pairs the inner loops do not skip
Candidates(techs, js, assigned, load) ==
    { c \in (1..Len(js)) \X (1..Len(techs)) :
        /\ c[1] \notin assigned
        /\ ~ (load[techs[c[2]].id] >= techs[c[2]].max_capacity)
        /\ Covers(techs[c[2]], js[c[1]]) }

\* cost = duration_matrix[tp][jp] / max(job.priority, 1), compared exactly
CostLess(techs, js, pos, c, d) ==
    LET dm == build_duration_matrix(Points(techs, js))
        dc == dm[pos[techs[c[2]].id]][Len(techs) + c[1]]
        dd == dm[pos[techs[d[2]].id]][Len(techs) + d[1]]
    IN  dc * Max(js[d[1]].priority, 1) < dd * Max(js[c[1]].priority, 1)

\* the priority is left out of the cost: the nearest pair is kept
BestPairNearest(techs, js, pos, cands) ==
    CHOOSE c \in cands : \A d \in cands \ {c} :
        LET dm == build_duration_matrix(Points(techs, js))
            dc == dm[pos[techs[c[2]].id]][Len(techs) + c[1]]
            dd == dm[pos[techs[d[2]].id]][Len(techs) + d[1]]
        IN  \/ dc < dd
            \/ (dc = dd /\ (c[1] < d[1] \/ (c[1] = d[1] /\ c[2] < d[2])))

\* "cost <= best_cost": the last pair of minimum cost in scan order is kept
BestPairLastMin(techs, js, pos, cands) ==
    CHOOSE c \in cands : \A d \in cands \ {c} :
        LET dm == build_duration_matrix(Points(techs, js))
            dc == dm[pos[techs[c[2]].id]][Len(techs) + c[1]] * Max(js[d[1]].priority, 1)
            dd == dm[pos[techs[d[2]].id]][Len(techs) + d[1]] * Max(js[c[1]].priority, 1)
        IN  \/ dc < dd
            \/ (dc = dd /\ (d[1] < c[1] \/ (c[1] = d[1] /\ d[2] < c[2])))

\* the travel duration is multiplied by the priority in place of divided
BestPairTimesPriority(techs, js, pos, cands) ==
    CHOOSE c \in cands : \A d \in cands \ {c} :
        LET dm == build_duration_matrix(Points(techs, js))
            dc == dm[pos[techs[c[2]].id]][Len(techs) + c[1]] * Max(js[c[1]].priority, 1)
            dd == dm[pos[techs[d[2]].id]][Len(techs) + d[1]] * Max(js[d[1]].priority, 1)
        IN  \/ dc < dd
            \/ (dc = dd /\ (c[1] < d[1] \/ (c[1] = d[1] /\ c[2] < d[2])))

ScannedBefore(c, d) == c[1] < d[1] \/ (c[1] = d[1] /\ c[2] < d[2])

\* the pair left in best_ji, best_tech after the scan: "cost < best_cost" is
\* strict, so the first pair of minimum cost in scan order is kept
BestPair(techs, js, pos, cands) ==
    CHOOSE c \in cands : \A d \in cands \ {c} :
        \/ CostLess(techs, js, pos, c, d)
        \/ (~ CostLess(techs, js, pos, d, c) /\ ScannedBefore(c, d))

GreedyStop(techs, js, pos, time, c) ==
    LET job == js[c[1]]
        tech == techs[c[2]]
        jp == Len(techs) + c[1]
        tp == pos[tech.id]
        travel_secs == build_duration_matrix(Points(techs, js))[tp][jp]
        dist_km == build_distance_matrix(Points(techs, js))[tp][jp]
        arrival_secs == time[tech.id] + travel_secs
        departure_secs == arrival_secs + job.estimated_duration
    IN  RouteStop(job.id, tech.id, ClockTime(arrival_secs), ClockTime(departure_secs),
                  travel_secs \div 60, job.estimated_duration \div 60, job.lat, dist_km)

\* the fallback continues from the routes the solver path had filled
GreedyStartFromSolverRoutes(techs, js) ==
    [routes |-> [t \in TechIds(techs) |->
                    IF t \in DOMAIN solver_routes THEN solver_routes[t] ELSE <<>>],
     assigned_jobs |-> {},
     tech_time |-> [t \in TechIds(techs) |-> TechById(techs, t).available_from],
     tech_pos |-> [t \in TechIds(techs) |->
                     CHOOSE i \in 1..Len(techs) : techs[i].id = t /\ \A k \in (i + 1)..Len(techs) : techs[k].id # t],
     tech_load |-> [t \in TechIds(techs) |-> TechById(techs, t).current_load]]

\* the locals of _greedy_fallback before its main loop
GreedyStart(techs, js) ==
    [routes |-> [t \in TechIds(techs) |-> <<>>],
     assigned_jobs |-> {},
     tech_time |-> [t \in TechIds(techs) |-> TechById(techs, t).available_from],
     tech_pos |-> [t \in TechIds(techs) |->
                     CHOOSE i \in 1..Len(techs) : techs[i].id = t /\ \A k \in (i + 1)..Len(techs) : techs[k].id # t],
     tech_load |-> [t \in TechIds(techs) |-> TechById(techs, t).current_load]]

\* the round does not record the job as assigned
GreedyAssignForgetsJob(techs, js, g) ==
    LET c == BestPair(techs, js, g.tech_pos, Candidates(techs, js, g.assigned_jobs, g.tech_load))
        tid == techs[c[2]].id
        jp == Len(techs) + c[1]
        travel_secs == build_duration_matrix(Points(techs, js))[g.tech_pos[tid]][jp]
        arrival_secs == g.tech_time[tid] + travel_secs
        departure_secs == arrival_secs + js[c[1]].estimated_duration
    IN  [routes |-> [g.routes EXCEPT ![tid] = Append(@, GreedyStop(techs, js, g.tech_pos, g.tech_time, c))],
         assigned_jobs |-> g.assigned_jobs,
         tech_time |-> [g.tech_time EXCEPT ![tid] = departure_secs],
         tech_pos |-> [g.tech_pos EXCEPT ![tid] = jp],
         tech_load |-> [g.tech_load EXCEPT ![tid] = @ + 1]]

\* the round records the technician's index in place of the job's
GreedyAssignMarksTechnician(techs, js, g) ==
    LET c == BestPair(techs, js, g.tech_pos, Candidates(techs, js, g.assigned_jobs, g.tech_load))
        tid == techs[c[2]].id
        jp == Len(techs) + c[1]
        travel_secs == build_duration_matrix(Points(techs, js))[g.tech_pos[tid]][jp]
        arrival_secs == g.tech_time[tid] + travel_secs
        departure_secs == arrival_secs + js[c[1]].estimated_duration
    IN  [routes |-> [g.routes EXCEPT ![tid] = Append(@, GreedyStop(techs, js, g.tech_pos, g.tech_time, c))],
         assigned_jobs |-> g.assigned_jobs \cup {c[2]},
         tech_time |-> [g.tech_time EXCEPT ![tid] = departure_secs],
         tech_pos |-> [g.tech_pos EXCEPT ![tid] = jp],
         tech_load |-> [g.tech_load EXCEPT ![tid] = @ + 1]]

\* tech_time is set to the arrival: the time on site is not added
GreedyAssignArrivalAsTime(techs, js, g) ==
    LET c == BestPair(techs, js, g.tech_pos, Candidates(techs, js, g.assigned_jobs, g.tech_load))
        tid == techs[c[2]].id
        jp == Len(techs) + c[1]
        travel_secs == build_duration_matrix(Points(techs, js))[g.tech_pos[tid]][jp]
        arrival_secs == g.tech_time[tid] + travel_secs
    IN  [routes |-> [g.routes EXCEPT ![tid] = Append(@, GreedyStop(techs, js, g.tech_pos, g.tech_time, c))],
         assigned_jobs |-> g.assigned_jobs \cup {c[1]},
         tech_time |-> [g.tech_time EXCEPT ![tid] = arrival_secs],
         tech_pos |-> [g.tech_pos EXCEPT ![tid] = jp],
         tech_load |-> [g.tech_load EXCEPT ![tid] = @ + 1]]

\* the locals after a round that found a pair: lines 379-402
GreedyAssign(techs, js, g) ==
    LET c == BestPair(techs, js, g.tech_pos, Candidates(techs, js, g.assigned_jobs, g.tech_load))
        tid == techs[c[2]].id
        jp == Len(techs) + c[1]
        travel_secs == build_duration_matrix(Points(techs, js))[g.tech_pos[tid]][jp]
        arrival_secs == g.tech_time[tid] + travel_secs
        departure_secs == arrival_secs + js[c[1]].estimated_duration
    IN  [routes |-> [g.routes EXCEPT ![tid] = Append(@, GreedyStop(techs, js, g.tech_pos, g.tech_time, c))],
         assigned_jobs |-> g.assigned_jobs \cup {c[1]},
         tech_time |-> [g.tech_time EXCEPT ![tid] = departure_secs],
         tech_pos |-> [g.tech_pos EXCEPT ![tid] = jp],
         tech_load |-> [g.tech_load EXCEPT ![tid] = @ + 1]]

\* the main loop from round n on, and the routes _greedy_fallback returns
RECURSIVE GreedyLoop(_, _, _, _)
GreedyLoop(techs, js, g, n) ==
    IF n = Len(js) \/ Candidates(techs, js, g.assigned_jobs, g.tech_load) = {}
    THEN g
    ELSE GreedyLoop(techs, js, GreedyAssign(techs, js, g), n + 1)

greedy_fallback(techs, js) == GreedyLoop(techs, js, GreedyStart(techs, js), 0).routes

GreedyLocals ==
    [routes |-> routes, assigned_jobs |-> assigned_jobs, tech_time |-> tech_time,
     tech_pos |-> tech_pos, tech_load |-> tech_load]

\* the round counts the load on the Technician object, not on a local copy
GreedyRoundWritesLoad ==
    /\ pc = "greedy"
    /\ iter < Len(jobs)
    /\ Candidates(technicians, jobs, assigned_jobs, tech_load) # {}
    /\ LET g == GreedyAssign(technicians, jobs, GreedyLocals)
       IN  /\ routes' = g.routes
           /\ assigned_jobs' = g.assigned_jobs
           /\ tech_time' = g.tech_time
           /\ tech_pos' = g.tech_pos
           /\ tech_load' = g.tech_load
           /\ technicians' = [i \in 1..Len(technicians) |->
                                 [technicians[i] EXCEPT !.current_load = g.tech_load[technicians[i].id]]]
    /\ iter' = iter + 1
    /\ UNCHANGED <<skill_vars, jobs, pc, path, solver_routes, rows_parsed, reopt_vars, call,
                   provider_vars, solver_result, other_vars>>

\* one round of the main loop that assigns a job
GreedyRound ==
    /\ pc = "greedy"
    /\ iter < Len(jobs)
    /\ Candidates(technicians, jobs, assigned_jobs, tech_load) # {}
    /\ LET g == GreedyAssign(technicians, jobs, GreedyLocals)
       IN  /\ routes' = g.routes
           /\ assigned_jobs' = g.assigned_jobs
           /\ tech_time' = g.tech_time
           /\ tech_pos' = g.tech_pos
           /\ tech_load' = g.tech_load
    /\ iter' = iter + 1
    /\ UNCHANGED <<skill_vars, technicians, jobs, pc, path, solver_routes, rows_parsed, reopt_vars, call,
                   provider_vars, solver_result, other_vars>>

\* the loop is exhausted or a round found no pair (break): return routes
GreedyReturn ==
    /\ pc = "greedy"
    /\ \/ iter = Len(jobs)
       \/ Candidates(technicians, jobs, assigned_jobs, tech_load) = {}
    /\ pc' = "done"
    /\ path' = "greedy"
    /\ UNCHANGED <<skill_vars, technicians, jobs, routes, solver_routes, greedy_vars, rows_parsed, reopt_vars, call,
                   provider_vars, solver_result, other_vars>>

None == <<>>

\* ----------------------------------- distances between points of the globe
\* coordinates in whole degrees, on a grid where the haversine formula has
\* exact values: latitudes -60, 0, 60 and longitudes that are multiples of 60
GridLats == {0 - 60, 0, 60}

GridLons == {0 - 120, 0, 180}

GridPoints == [lat : GridLats, lon : GridLons]

\* 4 * sin(radians(d) / 2) ** 2 for d a multiple of 60 degrees
SinSq4(d) ==
    LET m == (Abs(d) \div 60) % 6
    IN  IF m = 0 THEN 0 ELSE IF m = 1 \/ m = 5 THEN 1 ELSE IF m = 2 \/ m = 4 THEN 3 ELSE 4

\* 2 * cos(radians(lat))
Cos2(lat) == IF lat = 0 THEN 2 ELSE 1

\* R * 2 * atan2(sqrt(a), sqrt(1 - a)) in whole km, for a = k / 16
ArcKm ==
    <<3220, 4605, 5706, 6672, 7559, 8398, 9209, 10008, 10806, 11617, 12457, 13343, 14309, 15411,
      16795, 20015>>

\* the cosine of the first latitude is taken twice
haversine_km_first_latitude(lat1, lon1, lat2, lon2) ==
    LET dlat == lat2 - lat1
        dlon == lon2 - lon1
        a == 4 * SinSq4(dlat) + Cos2(lat1) * Cos2(lat1) * SinSq4(dlon)
    IN  IF a = 0 THEN 0 ELSE ArcKm[Min(a, 16)]

\* lines 120-126, with a in sixteenths
haversine_km(lat1, lon1, lat2, lon2) ==
    LET dlat == lat2 - lat1
        dlon == lon2 - lon1
        a == 4 * SinSq4(dlat) + Cos2(lat1) * Cos2(lat2) * SinSq4(dlon)
    IN  IF a = 0 THEN 0 ELSE ArcKm[a]

\* lines 132-141 for points with both coordinates
GridDurationMatrix(points) ==
    [i \in 1..Len(points) |-> [j \in 1..Len(points) |->
        IF i # j
        THEN estimate_travel_seconds(haversine_km(points[i].lat, points[i].lon, points[j].lat, points[j].lon))
        ELSE 0]]

\* lines 143-151 for points with both coordinates
GridDistanceMatrix(points) ==
    [i \in 1..Len(points) |-> [j \in 1..Len(points) |->
        IF i # j
        THEN haversine_km(points[i].lat, points[i].lon, points[j].lat, points[j].lon)
        ELSE 0]]

\* haversine is called for two of the points, in both orders and for the
\* first point with itself
Haversine ==
    /\ geo # None
    /\ \E i, j \in 1..Len(geo.points) :
          LET a == geo.points[i]
              b == geo.points[j]
          IN  geo' = [geo EXCEPT !.a = i, !.b = j,
                                 !.ab = haversine_km(a.lat, a.lon, b.lat, b.lon),
                                 !.ba = haversine_km(b.lat, b.lon, a.lat, a.lon),
                                 !.aa = haversine_km(a.lat, a.lon, a.lat, a.lon)]
    /\ UNCHANGED <<skill_vars, technicians, jobs, pc, path, routes, solver_routes, greedy_vars, rows_parsed,
                   reopt_vars, call, provider_vars, solver_result, osrm_url, savings>>

\* both matrices are built for the points
BuildMatrices ==
    /\ geo # None
    /\ geo.durations = None
    /\ geo' = [geo EXCEPT !.durations = GridDurationMatrix(geo.points),
                          !.distances = GridDistanceMatrix(geo.points)]
    /\ UNCHANGED <<skill_vars, technicians, jobs, pc, path, routes, solver_routes, greedy_vars, rows_parsed,
                   reopt_vars, call, provider_vars, solver_result, osrm_url, savings>>

\* ------------------------------------------------------- estimate_savings
\* round(num / den): to the nearest integer, a tie to the even one
RoundHalfEven(num, den) ==
    LET q == num \div den
        r == num % den
    IN  IF 2 * r < den THEN q
        ELSE IF 2 * r > den THEN q + 1
        ELSE IF q % 2 = 0 THEN q ELSE q + 1

\* sum(... for s in stops) of one route
RouteSum(stops, field) ==
    SumOver(1..Len(stops), [k \in 1..Len(stops) |->
        IF field = "distance_km" THEN stops[k].distance_km ELSE stops[k].travel_minutes])

\* total_km of line 408, in km
TotalKm(sched) == SumOver(DOMAIN sched, [t \in DOMAIN sched |-> RouteSum(sched[t], "distance_km")])

\* naive_km of line 410, in metres, for a naive_factor given in thousandths
NaiveMetres(sched, naive_factor) == TotalKm(sched) * naive_factor

\* the naive_factor values of the calls, in thousandths (1400 is the default)
NaiveFactors == {0, 500, 999, 1000, 1400}

\* the percentage is taken of the optimized distance
estimate_savings_of_optimized(sched, naive_factor) ==
    LET total_km == TotalKm(sched)
        naive_m == NaiveMetres(sched, naive_factor)
    IN  [optimized_km |-> 10 * total_km,
         naive_estimate_km |-> RoundHalfEven(naive_m, 100),
         savings_km |-> RoundHalfEven(naive_m - 1000 * total_km, 100),
         savings_pct |-> IF naive_m > 0
                         THEN RoundHalfEven(1000 * (1000 * total_km - naive_m), 1000 * total_km)
                         ELSE 0,
         total_travel_minutes |->
             SumOver(DOMAIN sched, [t \in DOMAIN sched |-> RouteSum(sched[t], "travel_minutes")]),
         jobs_assigned |-> TotalStops(sched)]

\* lines 407-418.  The report's distances and its percentage are rounded to
\* one decimal and held here in tenths (of a km, of a percent).
estimate_savings(sched, naive_factor) ==
    LET total_km == TotalKm(sched)
        naive_m == NaiveMetres(sched, naive_factor)
    IN  [optimized_km |-> 10 * total_km,
         naive_estimate_km |-> RoundHalfEven(naive_m, 100),
         savings_km |-> RoundHalfEven(naive_m - 1000 * total_km, 100),
         savings_pct |-> IF naive_m > 0
                         THEN RoundHalfEven(1000 * (naive_m - 1000 * total_km), naive_m)
                         ELSE 0,
         total_travel_minutes |->
             SumOver(DOMAIN sched, [t \in DOMAIN sched |-> RouteSum(sched[t], "travel_minutes")]),
         jobs_assigned |-> TotalStops(sched)]

\* the caller asks for the savings of the schedule it was returned
EstimateSavings ==
    /\ pc = "done"
    /\ \E naive_factor \in NaiveFactors :
          savings' = [routes |-> routes, naive_factor |-> naive_factor,
                      report |-> estimate_savings(routes, naive_factor)]
    /\ UNCHANGED <<skill_vars, technicians, jobs, pc, path, routes, solver_routes, greedy_vars, rows_parsed,
                   reopt_vars, call, provider_vars, solver_result, osrm_url, geo>>

\* ------------------------------------------------- road-network provider

NoResponse == [kind |-> "none"]

OsrmBase == "http://osrm"

\* what the provider's table service reports for the points, in tenths of a
\* second: roads are half as long again as the straight line
RoadDurations(points) ==
    [i \in 1..Len(points) |-> [j \in 1..Len(points) |->
        IF i # j THEN 15 * estimate_travel_seconds(haversine(points[i], points[j])) + 5 ELSE 0]]

\* null (-1) for every pair of different points: no route was found
NullDurations(points) ==
    [i \in 1..Len(points) |-> [j \in 1..Len(points) |-> IF i # j THEN NoTime ELSE 0]]

\* the outcomes of client.get(url): the request raises (timeout, connection
\* refused), the server answers with an error status, it answers 200 with a
\* code other than "Ok", it answers 200 "Ok" with durations, or 200 "Ok" with
\* null durations
OsrmResponses(points) ==
    { [kind |-> "raised", status_code |-> 0, code |-> "", durations |-> None],
      [kind |-> "answer", status_code |-> 503, code |-> "", durations |-> None],
      [kind |-> "answer", status_code |-> 200, code |-> "NoTable", durations |-> RoadDurations(points)],
      [kind |-> "answer", status_code |-> 200, code |-> "Ok", durations |-> RoadDurations(points)],
      [kind |-> "answer", status_code |-> 200, code |-> "Ok", durations |-> NullDurations(points)] }

\* int(v) of a duration given in tenths of a second
IntOfDuration(v) == v \div 10

\* the code of the answer is not looked at
osrm_duration_matrix_any_code(url, response) ==
    IF url = "" THEN None
    ELSE IF response.kind = "raised" THEN None
    ELSE IF response.status_code = 200
         THEN IF \E i \in 1..Len(response.durations) : \E j \in 1..Len(response.durations[i]) :
                    response.durations[i][j] = NoTime
              THEN None
              ELSE [i \in 1..Len(response.durations) |->
                      [j \in 1..Len(response.durations[i]) |-> IntOfDuration(response.durations[i][j])]]
         ELSE None

\* lines 157-173: None unless the answer is 200 "Ok" and every duration
\* converts to an int (a null raises inside the try and is caught)
osrm_duration_matrix(url, response) ==
    IF url = "" THEN None
    ELSE IF response.kind = "raised" THEN None
    ELSE IF response.status_code = 200 /\ response.code = "Ok"
         THEN IF \E i \in 1..Len(response.durations) : \E j \in 1..Len(response.durations[i]) :
                    response.durations[i][j] = NoTime
              THEN None
              ELSE [i \in 1..Len(response.durations) |->
                      [j \in 1..Len(response.durations[i]) |-> IntOfDuration(response.durations[i][j])]]
         ELSE None

\* line 228: osrm_matrix if osrm_matrix else build_duration_matrix(all_points)
DurationMatrix(techs, js) ==
    IF osrm_matrix # None THEN osrm_matrix ELSE build_duration_matrix(Points(techs, js))

\* the provider answers the request of line 165
OsrmAnswer ==
    /\ pc = "osrm"
    /\ \E response \in OsrmResponses(Points(technicians, jobs)) :
          /\ osrm_response' = response
          /\ osrm_matrix' = osrm_duration_matrix(osrm_url, response)
    /\ pc' = "solver"
    /\ UNCHANGED <<skill_vars, technicians, jobs, path, routes, solver_routes, greedy_vars, rows_parsed,
                   reopt_vars, call, osrm_calls, solver_result, other_vars>>

\* ------------------------------------------------------------- skill ids
\* the order in which the callers list their skill tags
SkillTags == <<"hvac", "refrigeration", "electrical">>

\* the counter is read but not advanced
skill_to_id_keeps_counter(ids, next, skill_name) ==
    IF skill_name \notin DOMAIN ids
    THEN [ids |-> ids @@ (skill_name :> next), next |-> next, id |-> next]
    ELSE [ids |-> ids, next |-> next, id |-> ids[skill_name]]

\* lines 105-110: the dict and the counter after the call, and the id returned
skill_to_id(ids, next, skill_name) ==
    IF skill_name \notin DOMAIN ids
    THEN [ids |-> ids @@ (skill_name :> next), next |-> next + 1, id |-> next]
    ELSE [ids |-> ids, next |-> next, id |-> ids[skill_name]]

\* the calls _skills_to_set makes for a list of tags (line 114), one after
\* the other on the dict and the counter
RECURSIVE skills_to_set(_, _, _)
skills_to_set(ids, next, skills) ==
    IF skills = <<>> THEN [ids |-> ids, next |-> next, set |-> {}]
    ELSE LET first == skill_to_id(ids, next, Head(skills))
             rest == skills_to_set(first.ids, first.next, Tail(skills))
         IN  [ids |-> rest.ids, next |-> rest.next, set |-> {first.id} \cup rest.set]

\* a Technician's or a Job's list of tags
SkillList(skills) ==
    LET Listed(tag) == tag \in skills
    IN  SelectSeq(SkillTags, Listed)

\* the tags _vroom_optimize encodes, in the order of its calls: the skills
\* of every technician (line 244), then the required skills of every job
\* (lines 260-262)
RECURSIVE SkillCalls(_, _)
SkillCalls(techs, js) ==
    IF techs # <<>> THEN SkillList(Head(techs).skills) \o SkillCalls(Tail(techs), js)
    ELSE IF js # <<>> THEN SkillList(Head(js).required_skills) \o SkillCalls(techs, Tail(js))
    ELSE <<>>

\* the build of the vehicles and jobs (lines 236-279) went through its
\* first n calls of _skill_to_id
EncodeSkills(n) ==
    LET built == skills_to_set(SKILL_IDS, next_skill_id, SubSeq(SkillCalls(technicians, jobs), 1, n))
    IN  /\ SKILL_IDS' = built.ids
        /\ next_skill_id' = built.next

\* ------------------------------------------------------- VROOM solver path
\* The solver is an external library.  Its outcome is any set of routes that
\* satisfies the hard constraints of the problem built in _vroom_optimize
\* (vehicle capacity, skills, job time windows and the vehicle's working
\* hours, the vehicle starting and ending at the technician's home) and that
\* is best for the solver's first objectives: the priority sum of the jobs
\* served, then their number.  Each route is timed from available_from,
\* waiting at a job whose window is not open.
RemainingCap(tech) == Max(tech.max_capacity - tech.current_load, 0)

\* the time windows given to vroom.Job: both bounds, or a start with 23:00
WindowStart(job) == IF job.time_window_start # NoTime THEN job.time_window_start ELSE NoTime

WindowEnd(job) ==
    IF job.time_window_start # NoTime /\ job.time_window_end # NoTime THEN job.time_window_end
    ELSE IF job.time_window_start # NoTime THEN DefaultLateWindowHour * 3600
    ELSE NoTime

\* point index of the k-th step of a route (0: the technician's home)
StepPoint(techs, ti, route, k) == IF k = 0 THEN ti ELSE Len(techs) + route[k]

RECURSIVE SolverDeparture(_, _, _, _, _)
SolverArrival(techs, js, ti, route, k) ==
    SolverDeparture(techs, js, ti, route, k - 1)
    + DurationMatrix(techs, js)[StepPoint(techs, ti, route, k - 1)][StepPoint(techs, ti, route, k)]

SolverServiceStart(techs, js, ti, route, k) ==
    IF WindowStart(js[route[k]]) # NoTime
    THEN Max(SolverArrival(techs, js, ti, route, k), WindowStart(js[route[k]]))
    ELSE SolverArrival(techs, js, ti, route, k)

SolverDeparture(techs, js, ti, route, k) ==
    IF k = 0 THEN techs[ti].available_from
    ELSE SolverServiceStart(techs, js, ti, route, k) + js[route[k]].estimated_duration

RouteFeasible(techs, js, ti, route) ==
    /\ Len(route) <= RemainingCap(techs[ti])
    /\ \A k \in 1..Len(route) :
        /\ js[route[k]].required_skills \subseteq techs[ti].skills
        /\ WindowStart(js[route[k]]) # NoTime =>
              SolverServiceStart(techs, js, ti, route, k) <= WindowEnd(js[route[k]])
    /\ Len(route) > 0 =>
          SolverDeparture(techs, js, ti, route, Len(route))
          + DurationMatrix(techs, js)[StepPoint(techs, ti, route, Len(route))][ti]
             <= techs[ti].available_to

InjectiveSeqs(S, n) ==
    { q \in SeqsUpTo(S, n) : \A a, b \in 1..Len(q) : a # b => q[a] # q[b] }

\* the feasible routes of vehicle i over the jobs no earlier vehicle serves,
\* each followed by the feasible routes of the vehicles after it
RECURSIVE FeasibleFrom(_, _, _, _)
FeasibleFrom(techs, js, i, used) ==
    IF i > Len(techs) THEN { <<>> }
    ELSE UNION { { <<route>> \o rest :
                     rest \in FeasibleFrom(techs, js, i + 1, used \cup Range(route)) } :
                 route \in { q \in InjectiveSeqs((1..Len(js)) \ used, RemainingCap(techs[i])) :
                                RouteFeasible(techs, js, i, q) } }

FeasibleSolutions(techs, js) == FeasibleFrom(techs, js, 1, {})

Served(sol) == UNION { Range(sol[ti]) : ti \in DOMAIN sol }

\* priority=min(max(job.priority, 0), 100)
VroomPriority(job) == Min(Max(job.priority, 0), 100)

PrioritySum(js, sol) ==
    SumOver(Served(sol), [ji \in 1..Len(js) |-> VroomPriority(js[ji])])

\* the solver's first objectives as one number: routes serve at most
\* Len(js) jobs, so a higher priority sum always outweighs the count
SolverScore(js, sol) == PrioritySum(js, sol) * (Len(js) + 1) + Cardinality(Served(sol))

\* solution.routes: for each vehicle the ordered job indices of its steps
SolverSolutions(techs, js) ==
    LET F == FeasibleSolutions(techs, js)
        scores == { SolverScore(js, sol) : sol \in F }
        best == CHOOSE m \in scores : \A x \in scores : x <= m
    IN  { sol \in F : SolverScore(js, sol) = best }

\* job_idx_map: a later job with the same id replaces the earlier entry
JobIdx(techs, js, id) ==
    Len(techs) + (CHOOSE i \in 1..Len(js) : js[i].id = id /\ \A k \in (i + 1)..Len(js) : js[k].id # id)

\* the RouteStop built for the k-th job row of vehicle ti
SolverStop(techs, js, ti, route, k) ==
    LET job == js[route[k]]
        job_idx == Len(techs) + route[k]
        arrival_secs == SolverArrival(techs, js, ti, route, k)
        service_secs == job.estimated_duration
        departure_secs == arrival_secs + service_secs
        prev_idx == IF k > 1 THEN JobIdx(techs, js, js[route[k - 1]].id) ELSE ti
        travel_secs == DurationMatrix(techs, js)[prev_idx][job_idx]
        dist_km == build_distance_matrix(Points(techs, js))[prev_idx][job_idx]
    IN  RouteStop(job.id, techs[ti].id, ClockTime(arrival_secs), ClockTime(departure_secs),
                  travel_secs \div 60, service_secs \div 60, job.lat, dist_km)

\* the routes dict gets a key only when a stop is stored under it
ParseSolutionUsedVehicles(techs, js, sol) ==
    [t \in { techs[i].id : i \in { k \in 1..Len(techs) : Len(sol[k]) > 0 } } |->
        LET ti == CHOOSE i \in 1..Len(techs) : techs[i].id = t
        IN  [k \in 1..Len(sol[ti]) |-> SolverStop(techs, js, ti, sol[ti], k)]]

\* the routes dict after the parse loop over solution.routes
ParseSolution(techs, js, sol) ==
    [t \in TechIds(techs) |->
        LET ti == CHOOSE i \in 1..Len(techs) : techs[i].id = t
        IN  [k \in 1..Len(sol[ti]) |-> SolverStop(techs, js, ti, sol[ti], k)]]

DistinctJobIds(js) == \A a, b \in 1..Len(js) : a # b => js[a].id # js[b].id

\* --------------------------------------------------------- optimize_routes
\* the early return is missing: empty inputs go on to the solver
optimize_routes_no_guard(js) ==
    /\ routes' = EmptySchedule
    /\ pc' = IF osrm_url # "" THEN "osrm" ELSE "solver"
    /\ path' = "none"
    /\ osrm_calls' = IF osrm_url # "" THEN 1 ELSE 0
    /\ osrm_response' = NoResponse
    /\ osrm_matrix' = None
    /\ solver_result' = "none"
    /\ solver_routes' = EmptySchedule
    /\ assigned_jobs' = {}
    /\ tech_time' = EmptySchedule
    /\ tech_pos' = EmptySchedule
    /\ tech_load' = EmptySchedule
    /\ iter' = 0
    /\ rows_parsed' = 0

\* the call, up to the request to the provider (await client.get, the one
\* suspension point of the call) or, when the provider is not configured,
\* up to the call of the solver
optimize_routes(js) ==
    /\ IF Len(technicians) = 0 \/ Len(js) = 0
       THEN /\ routes' = EmptySchedule
            /\ pc' = "done"
            /\ path' = "empty"
            /\ osrm_calls' = 0
       ELSE /\ routes' = EmptySchedule
            /\ pc' = IF osrm_url # "" THEN "osrm" ELSE "solver"
            /\ path' = "none"
            /\ osrm_calls' = IF osrm_url # "" THEN 1 ELSE 0
    /\ osrm_response' = NoResponse
    /\ osrm_matrix' = None
    /\ solver_result' = "none"
    /\ solver_routes' = EmptySchedule
    /\ assigned_jobs' = {}
    /\ tech_time' = EmptySchedule
    /\ tech_pos' = EmptySchedule
    /\ tech_load' = EmptySchedule
    /\ iter' = 0
    /\ rows_parsed' = 0

OptimizeRoutes ==
    /\ pc = "idle"
    /\ optimize_routes(jobs)
    /\ call' = "optimize_routes"
    /\ UNCHANGED <<skill_vars, technicians, jobs, reopt_vars, other_vars>>

\* the solver answers and the parse loop fills the local routes.  vroom
\* rejects a second job with an id already added, so the solver answers only
\* when the job ids are distinct.
VroomSolve ==
    /\ pc = "solver"
    /\ DistinctJobIds(jobs)
    /\ \E sol \in SolverSolutions(technicians, jobs) :
          solver_routes' = ParseSolution(technicians, jobs, sol)
    /\ pc' = "parsed"
    /\ solver_result' = "solution"
    /\ EncodeSkills(Len(SkillCalls(technicians, jobs)))
    /\ UNCHANGED <<skill_runs, skill_returned, technicians, jobs, path, routes, greedy_vars, rows_parsed, reopt_vars, call,
                   provider_vars, other_vars>>

\* solution.routes of a solution: for every vehicle with jobs a start row,
\* one job row per job and an end row
RECURSIVE SolutionRows(_, _, _, _)
SolutionRows(techs, js, sol, ti) ==
    IF ti > Len(techs) THEN <<>>
    ELSE (IF Len(sol[ti]) = 0 THEN <<>>
          ELSE <<[type |-> "start", vehicle_id |-> ti, id |-> NoTime, arrival |-> techs[ti].available_from, service |-> 0]>>
               \o [k \in 1..Len(sol[ti]) |->
                      [type |-> "job", vehicle_id |-> ti, id |-> Len(techs) + sol[ti][k],
                       arrival |-> SolverArrival(techs, js, ti, sol[ti], k),
                       service |-> js[sol[ti][k]].estimated_duration]]
               \o <<[type |-> "end", vehicle_id |-> ti, id |-> NoTime,
                     arrival |-> SolverDeparture(techs, js, ti, sol[ti], Len(sol[ti])), service |-> 0]>>)
         \o SolutionRows(techs, js, sol, ti + 1)

\* lines 285-330: the routes dict after the first n rows.  A row that is not
\* a job row, or whose vehicle or job index is in neither index map, is
\* passed over (lines 291 and 302).
RECURSIVE ParseRows(_, _, _, _)
ParseRows(techs, js, rows, n) ==
    IF n = 0 THEN [t \in TechIds(techs) |-> <<>>]
    ELSE LET acc == ParseRows(techs, js, rows, n - 1)
             row == rows[n]
         IN  IF row.type # "job" THEN acc
             ELSE IF row.vehicle_id \notin 1..Len(techs)
                     \/ row.id \notin (Len(techs) + 1)..(Len(techs) + Len(js))
                  THEN acc
                  ELSE LET tech == techs[row.vehicle_id]
                           job == js[row.id - Len(techs)]
                           departure_secs == row.arrival + row.service
                           prev_stops == acc[tech.id]
                           prev_idx == IF Len(prev_stops) > 0
                                       THEN JobIdx(techs, js, prev_stops[Len(prev_stops)].job_id)
                                       ELSE row.vehicle_id
                           travel_secs == DurationMatrix(techs, js)[prev_idx][row.id]
                           dist_km == build_distance_matrix(Points(techs, js))[prev_idx][row.id]
                           stop == RouteStop(job.id, tech.id, ClockTime(row.arrival), ClockTime(departure_secs),
                                             travel_secs \div 60, row.service \div 60, job.lat, dist_km)
                       IN  [acc EXCEPT ![tech.id] = Append(@, stop)]

\* an index that is in neither tech_idx_map nor job_idx_map
UnknownIdx == 99

\* results the parse loop cannot match to the problem: one job row names an
\* unknown vehicle or an unknown job, or there are no rows at all although
\* the solution serves a job
MalformedRows(techs, js, sol) ==
    LET rows == SolutionRows(techs, js, sol, 1)
        job_rows == { n \in 1..Len(rows) : rows[n].type = "job" }
    IN  { [rows EXCEPT ![n].vehicle_id = UnknownIdx] : n \in job_rows }
        \cup { [rows EXCEPT ![n].id = UnknownIdx] : n \in job_rows }
        \cup (IF job_rows # {} THEN {<<>>} ELSE {})

\* the solver answers with a result the parse loop cannot match
VroomMalformed ==
    /\ pc = "solver"
    /\ DistinctJobIds(jobs)
    /\ \E sol \in SolverSolutions(technicians, jobs) :
          \E rows \in MalformedRows(technicians, jobs, sol) :
              solver_routes' = ParseRows(technicians, jobs, rows, Len(rows))
    /\ pc' = "parsed"
    /\ solver_result' = "malformed"
    /\ EncodeSkills(Len(SkillCalls(technicians, jobs)))
    /\ UNCHANGED <<skill_runs, skill_returned, technicians, jobs, path, routes, greedy_vars, rows_parsed, reopt_vars, call,
                   provider_vars, other_vars>>

\* _vroom_optimize returns its routes
VroomReturn ==
    /\ pc = "parsed"
    /\ routes' = solver_routes
    /\ solver_routes' = EmptySchedule
    /\ pc' = "done"
    /\ path' = "solver"
    /\ UNCHANGED <<skill_vars, technicians, jobs, greedy_vars, rows_parsed, reopt_vars, call,
                   provider_vars, solver_result, other_vars>>

\* _vroom_optimize raises, before the solver answered (at any point of the
\* build of the problem) or after the rows were parsed; its locals are
\* dropped and the except clause of optimize_routes calls _greedy_fallback,
\* which sets up its own locals
VroomFail ==
    /\ pc \in {"solver", "parsed"}
    /\ LET g == GreedyStart(technicians, jobs)
       IN  /\ routes' = g.routes
           /\ assigned_jobs' = g.assigned_jobs
           /\ tech_time' = g.tech_time
           /\ tech_pos' = g.tech_pos
           /\ tech_load' = g.tech_load
    /\ rows_parsed' = TotalStops(solver_routes)
    /\ solver_routes' = EmptySchedule
    /\ iter' = 0
    /\ pc' = "greedy"
    /\ IF pc = "solver"
       THEN \E n \in 0..Len(SkillCalls(technicians, jobs)) : EncodeSkills(n)
       ELSE UNCHANGED skill_table
    /\ UNCHANGED <<skill_runs, skill_returned, technicians, jobs, path, reopt_vars, call,
                   provider_vars, solver_result, other_vars>>

\* ---------------------------------------------------------------- reoptimize
\* the Job rebuilt from a stop: priority, skills and window take the defaults
StopToJob(stop) ==
    Job(stop.job_id, stop.lat, 1, stop.service_minutes * 60, {}, NoTime, NoTime)

\* the completed stops are not filtered out
RECURSIVE RemainingJobsKeepsCompleted(_, _, _, _)
RemainingJobsKeepsCompleted(techs, existing, completed, i) ==
    IF i > Len(techs) THEN <<>>
    ELSE LET stops == IF techs[i].id \in DOMAIN existing THEN existing[techs[i].id] ELSE <<>>
         IN  [k \in 1..Len(stops) |-> StopToJob(stops[k])]
             \o RemainingJobsKeepsCompleted(techs, existing, completed, i + 1)

\* existing_routes.items() yields the technicians in the order of the list
\* the schedule was built from
RECURSIVE RemainingJobs(_, _, _, _)
RemainingJobs(techs, existing, completed, i) ==
    IF i > Len(techs) THEN <<>>
    ELSE LET stops == IF techs[i].id \in DOMAIN existing THEN existing[techs[i].id] ELSE <<>>
             Kept(stop) == stop.job_id \notin completed
             kept == SelectSeq(stops, Kept)
         IN  [k \in 1..Len(kept) |-> StopToJob(kept[k])]
             \o RemainingJobs(techs, existing, completed, i + 1)

\* the completed stops are added to the load the technician already had
CompletedCountAddsToLoad(tech, existing, completed) ==
    LET stops == IF tech.id \in DOMAIN existing THEN existing[tech.id] ELSE <<>>
    IN  tech.current_load + Cardinality({ k \in 1..Len(stops) : stops[k].job_id \in completed })

\* the completed stops of all routes are counted for every technician
CompletedCountWholeSchedule(tech, existing, completed) ==
    Cardinality({ s \in StopsOf(existing) : s.job_id \in completed })

\* lines 448: the technician's stops in the existing schedule that are completed
CompletedCount(tech, existing, completed) ==
    LET stops == IF tech.id \in DOMAIN existing THEN existing[tech.id] ELSE <<>>
    IN  Cardinality({ k \in 1..Len(stops) : stops[k].job_id \in completed })

\* ids a new job may carry: a fresh one, or one already in the schedule
NewJobLists(sched) ==
    { [i \in 1..Len(ks) |-> [ks[i] EXCEPT !.id = ids[i]]] :
        ks \in SeqsUpTo(NewJobKinds, MaxNewJobs),
        ids \in [1..MaxNewJobs -> {"n1"} \cup JobIdsOf(sched)] }

\* the completed stops are removed from the schedule passed in
reoptimize_prunes_existing(existing, new, completed) ==
    LET all_jobs == RemainingJobs(technicians, existing, completed, 1) \o new
        Kept(stop) == stop.job_id \notin completed
    IN  /\ technicians' = [i \in 1..Len(technicians) |->
                              [technicians[i] EXCEPT !.current_load =
                                  CompletedCount(technicians[i], existing, completed)]]
        /\ jobs' = all_jobs
        /\ existing_routes' = [t \in DOMAIN existing |-> SelectSeq(existing[t], Kept)]
        /\ optimize_routes(all_jobs)

\* lines 429-451; existing_routes is only read (lines 433-435 and 448)
reoptimize(existing, new, completed) ==
    LET all_jobs == RemainingJobs(technicians, existing, completed, 1) \o new
    IN  /\ technicians' = [i \in 1..Len(technicians) |->
                              [technicians[i] EXCEPT !.current_load =
                                  CompletedCount(technicians[i], existing, completed)]]
        /\ jobs' = all_jobs
        /\ existing_routes' = existing
        /\ optimize_routes(all_jobs)

\* the caller re-plans the schedule it was given last; one call plans at most
\* MaxJobs jobs
Reoptimize ==
    /\ pc = "done"
    /\ \E completed \in SUBSET JobIdsOf(routes), new \in NewJobLists(routes) :
          /\ Len(RemainingJobs(technicians, routes, completed, 1)) + Len(new) <= MaxJobs
          /\ reoptimize(routes, new, completed)
          /\ completed_job_ids' = completed
          /\ new_jobs' = new
    /\ prior_load' = [i \in 1..Len(technicians) |-> technicians[i].current_load]
    /\ call' = "reoptimize"
    /\ UNCHANGED <<skill_vars, history_vars, other_vars>>

\* the skills a job id was first planned with: those of the Job object the
\* caller passed to optimize_routes (lines 189-191) or as a new job to
\* reoptimize (line 444)
FirstRequired(planned, new) ==
    LET given == planned \o new
        First(id) == given[CHOOSE i \in 1..Len(given) :
                              given[i].id = id /\ \A k \in 1..(i - 1) : given[k].id # id]
    IN  [id \in DOMAIN first_required \cup { given[i].id : i \in 1..Len(given) } |->
            IF id \in DOMAIN first_required THEN first_required[id]
            ELSE First(id).required_skills]

\* the completed stops of each technician's route (line 448), added to the
\* jobs the technician completed before
CompletedBy(techs, existing, completed) ==
    [t \in TechIds(techs) |->
        (IF t \in DOMAIN completed_by THEN completed_by[t] ELSE {})
        \cup { st.job_id : st \in { s \in Range(IF t \in DOMAIN existing THEN existing[t] ELSE <<>>) :
                                     s.job_id \in completed } }]

\* new jobs with ids of their own: no id of another new job, nor one planned
\* before
FreshJobLists(planned) ==
    { new \in NewJobLists(EmptySchedule) :
        /\ \A i \in 1..Len(new) :
              new[i].id \notin DOMAIN first_required \cup { planned[k].id : k \in 1..Len(planned) }
        /\ \A i, k \in 1..Len(new) : i # k => new[i].id # new[k].id }

\* the calls of reoptimize over a working day in which every job has an id
\* of its own: each call is given the schedule the last call returned and
\* all the jobs completed so far, and the planned skills and the completed
\* jobs are recorded
ReoptimizeOverDay ==
    /\ pc = "done"
    /\ \E completed \in SUBSET JobIdsOf(routes), new \in FreshJobLists(jobs) :
          LET so_far == completed \cup UNION { completed_by[t] : t \in DOMAIN completed_by }
          IN  /\ Len(RemainingJobs(technicians, routes, so_far, 1)) + Len(new) <= MaxJobs
              /\ reoptimize(routes, new, so_far)
              /\ completed_job_ids' = so_far
              /\ new_jobs' = new
              /\ first_required' = FirstRequired(jobs, new)
              /\ completed_by' = CompletedBy(technicians, routes, so_far)
    /\ prior_load' = [i \in 1..Len(technicians) |-> technicians[i].current_load]
    /\ call' = "reoptimize"
    /\ UNCHANGED <<skill_vars, other_vars>>


\* ------------------------------------------------------------ specification
\* --------------------------------- a second call on the same technicians
OtherJobIds == <<"o1", "o2", "o3">>

\* a stop of the schedule the other caller holds for technician ti
OtherStop(techs, ti) ==
    RouteStop(OtherJobIds[ti], techs[ti].id, 9 * 60, 10 * 60, 0, 60, techs[ti].lat, 0)

\* the schedules the other caller may hold: at most one stop for a technician
OtherSchedules(techs) ==
    { [t \in TechIds(techs) |->
          LET ti == CHOOSE i \in 1..Len(techs) : techs[i].id = t
          IN  IF ti \in with THEN <<OtherStop(techs, ti)>> ELSE <<>>] :
      with \in SUBSET (1..Len(techs)) }

\* another task calls reoptimize with the same Technician objects while this
\* call waits for the provider (line 165): it runs lines 429-449, which
\* write current_load, and is suspended in turn at its own request.  Its
\* arguments are kept in existing_routes and completed_job_ids, the loads it
\* found in prior_load.
OtherReoptimize ==
    /\ pc = "osrm"
    /\ prior_load = <<>>
    /\ \E existing \in OtherSchedules(technicians) :
          \E completed \in SUBSET JobIdsOf(existing) :
              /\ technicians' = [i \in 1..Len(technicians) |->
                                    [technicians[i] EXCEPT !.current_load =
                                        CompletedCount(technicians[i], existing, completed)]]
              /\ existing_routes' = existing
              /\ completed_job_ids' = completed
    /\ prior_load' = [i \in 1..Len(technicians) |-> technicians[i].current_load]
    /\ UNCHANGED <<skill_vars, jobs, pc, path, routes, solver_routes, greedy_vars, rows_parsed, new_jobs, call,
                   history_vars, provider_vars, solver_result, other_vars>>

Init ==
    /\ technicians \in TechLists
    /\ jobs \in JobLists
    /\ pc = "idle"
    /\ path = "none"
    /\ routes = EmptySchedule
    /\ solver_routes = EmptySchedule
    /\ assigned_jobs = {}
    /\ tech_time = EmptySchedule
    /\ tech_pos = EmptySchedule
    /\ tech_load = EmptySchedule
    /\ iter = 0
    /\ rows_parsed = 0
    /\ existing_routes = EmptySchedule
    /\ completed_job_ids = {}
    /\ new_jobs = <<>>
    /\ prior_load = <<>>
    /\ first_required = <<>>
    /\ completed_by = <<>>
    /\ SKILL_IDS = <<>>
    /\ next_skill_id = 1
    /\ skill_runs = <<>>
    /\ skill_returned = {}
    /\ call = "none"
    /\ osrm_url = ""
    /\ osrm_calls = 0
    /\ osrm_response = NoResponse
    /\ osrm_matrix = None
    /\ solver_result = "none"
    /\ savings = None
    /\ geo = None

Next ==
    \/ OptimizeRoutes
    \/ VroomSolve
    \/ VroomReturn
    \/ VroomFail
    \/ GreedyRound
    \/ GreedyReturn

Spec == Init /\ [][Next]_vars

\* _greedy_fallback is synchronous code: once entered, its rounds and its
\* return are taken
FairSpec == Init /\ [][Next]_vars /\ WF_vars(GreedyRound) /\ WF_vars(GreedyReturn)

\* a working day: a first plan, then re-optimizations of the plan returned
DayInit ==
    /\ technicians \in DayTechLists
    /\ jobs \in DayJobLists
    /\ pc = "idle"
    /\ path = "none"
    /\ routes = EmptySchedule
    /\ solver_routes = EmptySchedule
    /\ assigned_jobs = {}
    /\ tech_time = EmptySchedule
    /\ tech_pos = EmptySchedule
    /\ tech_load = EmptySchedule
    /\ iter = 0
    /\ rows_parsed = 0
    /\ existing_routes = EmptySchedule
    /\ completed_job_ids = {}
    /\ new_jobs = <<>>
    /\ prior_load = <<>>
    /\ first_required = <<>>
    /\ completed_by = <<>>
    /\ SKILL_IDS = <<>>
    /\ next_skill_id = 1
    /\ skill_runs = <<>>
    /\ skill_returned = {}
    /\ call = "none"
    /\ osrm_url = ""
    /\ osrm_calls = 0
    /\ osrm_response = NoResponse
    /\ osrm_matrix = None
    /\ solver_result = "none"
    /\ savings = None
    /\ geo = None

DayNext ==
    \/ Next
    \/ Reoptimize

DaySpec == DayInit /\ [][DayNext]_vars

WorkdayNext ==
    \/ Next
    \/ ReoptimizeOverDay

WorkdaySpec == DayInit /\ [][WorkdayNext]_vars

\* no call has been made yet
Idle ==
    /\ pc = "idle"
    /\ path = "none"
    /\ routes = EmptySchedule
    /\ solver_routes = EmptySchedule
    /\ assigned_jobs = {}
    /\ tech_time = EmptySchedule
    /\ tech_pos = EmptySchedule
    /\ tech_load = EmptySchedule
    /\ iter = 0
    /\ rows_parsed = 0
    /\ existing_routes = EmptySchedule
    /\ completed_job_ids = {}
    /\ new_jobs = <<>>
    /\ prior_load = <<>>
    /\ first_required = <<>>
    /\ completed_by = <<>>
    /\ SKILL_IDS = <<>>
    /\ next_skill_id = 1
    /\ skill_returned = {}
    /\ call = "none"
    /\ osrm_calls = 0
    /\ osrm_response = NoResponse
    /\ osrm_matrix = None
    /\ solver_result = "none"
    /\ savings = None

\* a deployment with or without a road-network provider (line 21)
OsrmInit ==
    /\ technicians \in DayTechLists
    /\ jobs \in DayJobLists
    /\ osrm_url \in {"", OsrmBase}
    /\ geo = None
    /\ skill_runs = <<>>
    /\ Idle

OsrmNext ==
    \/ Next
    \/ OsrmAnswer

OsrmSpec == OsrmInit /\ [][OsrmNext]_vars

\* a solver whose result may not match the problem it was given
SolverFaultNext ==
    \/ Next
    \/ VroomMalformed

SolverFaultSpec == Init /\ [][SolverFaultNext]_vars

\* maintenance jobs of different priorities at different distances: a plain
\* one, an urgent one far away and an urgent one in between
PriorityJobKinds ==
    { Job("", 1, 1, 3600, {"hvac"}, NoTime, NoTime),
      Job("", 5, 2, 3600, {"hvac"}, NoTime, NoTime),
      Job("", 3, 2, 3600, {"hvac"}, NoTime, NoTime) }

PriorityJobLists ==
    { [i \in 1..Len(ks) |-> [ks[i] EXCEPT !.id = JobIdOf(i)]] : ks \in SeqsUpTo(PriorityJobKinds, MaxJobs) }

PriorityInit ==
    /\ technicians \in DayTechLists
    /\ jobs \in PriorityJobLists
    /\ osrm_url = ""
    /\ geo = None
    /\ skill_runs = <<>>
    /\ Idle

PrioritySpec == PriorityInit /\ [][Next]_vars

\* the lists of points the distance functions are given
GridPointLists == UNION { [1..n -> GridPoints] : n \in 1..MaxPoints }

GeoInit ==
    /\ technicians = <<>>
    /\ jobs = <<>>
    /\ osrm_url = ""
    /\ \E points \in GridPointLists :
          geo = [points |-> points, a |-> 0, b |-> 0, ab |-> NoTime, ba |-> NoTime, aa |-> NoTime,
                 durations |-> None, distances |-> None]
    /\ skill_runs = <<>>
    /\ Idle

GeoNext ==
    \/ Haversine
    \/ BuildMatrices

GeoSpec == GeoInit /\ [][GeoNext]_vars

\* the optimization runs of a process, each reduced to the tags it passes
\* to _skill_to_id, in the order of its calls
SkillRuns == [1..MaxRuns -> SeqsUpTo(Range(SkillTags), MaxSkillCalls)]

SkillInit ==
    /\ technicians = <<>>
    /\ jobs = <<>>
    /\ osrm_url = ""
    /\ geo = None
    /\ skill_runs \in SkillRuns
    /\ Idle

\* one call of _skill_to_id (lines 105-110) by one of the runs; the calls of
\* the runs are taken in any order, each call as a whole: the function has no
\* await and the process runs its optimizations as tasks of one event loop
SkillToId ==
    /\ \E r \in 1..Len(skill_runs) :
          /\ skill_runs[r] # <<>>
          /\ LET skill_name == Head(skill_runs[r])
                 done == skill_to_id(SKILL_IDS, next_skill_id, skill_name)
             IN  /\ SKILL_IDS' = done.ids
                 /\ next_skill_id' = done.next
                 /\ skill_returned' = skill_returned \cup {<<skill_name, done.id>>}
          /\ skill_runs' = [skill_runs EXCEPT ![r] = Tail(@)]
    /\ UNCHANGED <<technicians, jobs, pc, path, routes, solver_routes, greedy_vars, rows_parsed,
                   reopt_vars, call, provider_vars, solver_result, other_vars>>

SkillNext == SkillToId

SkillSpec == SkillInit /\ [][SkillNext]_vars

\* two tasks of one event loop: the call followed here and another call that
\* runs while it is suspended
ConcNext ==
    \/ OsrmNext
    \/ OtherReoptimize

ConcSpec == OsrmInit /\ [][ConcNext]_vars

\* plans of a working day whose savings the caller asks for
SavingsNext ==
    \/ Next
    \/ EstimateSavings

SavingsSpec == DayInit /\ [][SavingsNext]_vars

\* ==================================================================== claims
RouteOf(sched, t) == IF t \in DOMAIN sched THEN sched[t] ELSE <<>>

Returned == pc = "done"

\* the job of the call that carries the id (ids are distinct in a first plan)
JobWithId(id) == jobs[CHOOSE i \in 1..Len(jobs) : jobs[i].id = id]

\* a job some technician could take when the call starts
FeasibleJobExists ==
    \E ji \in 1..Len(jobs), ti \in 1..Len(technicians) :
        /\ technicians[ti].current_load < technicians[ti].max_capacity
        /\ jobs[ji].required_skills \subseteq technicians[ti].skills

\* C1: in every returned schedule, a technician's route has at most
\* max_capacity - current_load stops (current_load as passed to the call).
C1_Capacity ==
    Returned =>
        \A ti \in 1..Len(technicians) :
            Len(RouteOf(routes, technicians[ti].id))
                <= technicians[ti].max_capacity - technicians[ti].current_load

\* the fallback filled a technician who already carried load up to the limit
\* and left a job out
C1_Witness ==
    /\ Returned
    /\ path = "greedy"
    /\ TotalStops(routes) < Len(jobs)
    /\ \E ti \in 1..Len(technicians) :
        /\ technicians[ti].current_load > 0
        /\ Len(routes[technicians[ti].id]) > 0
        /\ Len(routes[technicians[ti].id])
              = technicians[ti].max_capacity - technicians[ti].current_load

\* C2: every stop's job requires only skills its technician has, and a job
\* whose required skills no technician covers is in no route.
C2_Skills ==
    Returned =>
        /\ \A t \in DOMAIN routes : \A k \in 1..Len(routes[t]) :
              JobWithId(routes[t][k].job_id).required_skills
                  \subseteq TechById(technicians, t).skills
        /\ \A ji \in 1..Len(jobs) :
              (\A ti \in 1..Len(technicians) :
                  ~ (jobs[ji].required_skills \subseteq technicians[ti].skills))
              => jobs[ji].id \notin JobIdsOf(routes)

\* one technician with skill hvac and a free slot, one job that also needs
\* refrigeration: the fallback returns an empty route
C2_Witness ==
    /\ Returned
    /\ path = "greedy"
    /\ Len(technicians) = 1
    /\ Len(jobs) = 1
    /\ technicians[1].skills = {"hvac"}
    /\ technicians[1].current_load < technicians[1].max_capacity
    /\ jobs[1].required_skills = {"hvac", "refrigeration"}
    /\ routes = [t \in {"t1"} |-> <<>>]

\* C3: when the solver raised and some job is feasible, the schedule the
\* fallback returns has at least one stop.
C3_FallbackAvailable ==
    (Returned /\ path = "greedy" /\ FeasibleJobExists) => TotalStops(routes) >= 1

C3_Witness ==
    /\ Returned
    /\ path = "greedy"
    /\ rows_parsed = 0
    /\ FeasibleJobExists
    /\ TotalStops(routes) >= 1

\* C4: after a solver failure the result is the fallback's own schedule for
\* the technicians and jobs of the call: the fallback starts from empty
\* routes and every stop it returns was appended by one of its rounds.
C4_NoPartialMerge ==
    /\ (pc = "greedy" /\ iter = 0) => \A t \in DOMAIN routes : routes[t] = <<>>
    /\ (pc = "greedy" \/ (Returned /\ path = "greedy")) =>
          /\ TotalStops(routes) = Cardinality(assigned_jobs)
          /\ \A ti \in 1..Len(technicians) :
                Len(routes[technicians[ti].id])
                    = tech_load[technicians[ti].id] - technicians[ti].current_load
    /\ (Returned /\ path = "greedy") => routes = greedy_fallback(technicians, jobs)

\* the solver path had parsed stops when it raised, and the fallback
\* returned a schedule with stops
C4_Witness ==
    /\ Returned
    /\ path = "greedy"
    /\ rows_parsed >= 1
    /\ TotalStops(routes) >= 1

\* C5: with no technician and no job the call returns the empty schedule
\* at once: neither the solver nor the fallback runs.
C5_EmptyInput ==
    (Len(technicians) = 0 /\ Len(jobs) = 0) =>
        /\ pc \in {"idle", "done"}
        /\ Returned => (routes = EmptySchedule /\ path = "empty")

C5_Witness ==
    /\ Returned
    /\ Len(technicians) = 0
    /\ Len(jobs) = 0
    /\ routes = EmptySchedule
    /\ path = "empty"

\* all technicians cover all jobs, no job has a time window, and the total
\* remaining capacity is at least the number of jobs
AllJobsFit ==
    /\ \A ji \in 1..Len(jobs), ti \in 1..Len(technicians) :
          jobs[ji].required_skills \subseteq technicians[ti].skills
    /\ \A ji \in 1..Len(jobs) :
          jobs[ji].time_window_start = NoTime /\ jobs[ji].time_window_end = NoTime
    /\ SumOver(1..Len(technicians),
               [ti \in 1..Len(technicians) |->
                   technicians[ti].max_capacity - technicians[ti].current_load]) >= Len(jobs)

\* the places of the schedule that hold a stop for the job id
PlacesOf(sched, id) ==
    { p \in (DOMAIN sched) \X (1..Len(jobs)) :
        p[2] <= Len(sched[p[1]]) /\ sched[p[1]][p[2]].job_id = id }

EveryJobOnce == \A ji \in 1..Len(jobs) : Cardinality(PlacesOf(routes, jobs[ji].id)) = 1

HasWindow(job) == job.time_window_start # NoTime \/ job.time_window_end # NoTime

\* C7: within each route the departure_time of consecutive stops of jobs
\* without time windows is strictly increasing.
C7_DepartureIncreasing ==
    Returned =>
        \A t \in DOMAIN routes : \A k \in 1..(Len(routes[t]) - 1) :
            (~ HasWindow(JobWithId(routes[t][k].job_id))
             /\ ~ HasWindow(JobWithId(routes[t][k + 1].job_id)))
            => routes[t][k].departure_time < routes[t][k + 1].departure_time

\* C8: reoptimize with nothing completed and no new job returns a schedule
\* with the job ids of the schedule it was given.
C8_SameJobIds ==
    (Returned /\ call = "reoptimize" /\ completed_job_ids = {} /\ new_jobs = <<>>)
        => JobIdsOf(routes) = JobIdsOf(existing_routes)

SurvivingStops == { s \in StopsOf(existing_routes) : s.job_id \notin completed_job_ids }

NewJobIds == { new_jobs[k].id : k \in 1..Len(new_jobs) }

\* C9: the jobs reoptimize plans are the stops of the existing schedule that
\* are not completed, followed by the new jobs; the returned schedule holds
\* only surviving or new job ids, and a completed id only if a new job has it.
C9_SurvivingThenNew ==
    call = "reoptimize" =>
        LET n == Len(jobs) - Len(new_jobs)
        IN  /\ n = TotalStops(existing_routes)
                   - SumOver(DOMAIN existing_routes,
                             [t \in DOMAIN existing_routes |->
                                CompletedCount([id |-> t], existing_routes, completed_job_ids)])
            /\ \A k \in 1..Len(new_jobs) : jobs[n + k] = new_jobs[k]
            /\ { jobs[k].id : k \in 1..n } = JobIdsOf(existing_routes) \ completed_job_ids
            /\ \A k \in 1..n : \E s \in SurvivingStops :
                  /\ jobs[k].id = s.job_id
                  /\ jobs[k].lat = s.lat
                  /\ jobs[k].estimated_duration = s.service_minutes * 60
            /\ Returned =>
                  /\ JobIdsOf(routes) \subseteq
                        (JobIdsOf(existing_routes) \ completed_job_ids) \cup NewJobIds
                  /\ JobIdsOf(routes) \cap completed_job_ids \subseteq NewJobIds

\* a stop was completed, another survived, and a new job reusing the
\* completed id is in the returned schedule next to the surviving one
C9_Witness ==
    /\ Returned
    /\ call = "reoptimize"
    /\ completed_job_ids # {}
    /\ SurvivingStops # {}
    /\ NewJobIds \cap completed_job_ids # {}
    /\ JobIdsOf(routes) \cap completed_job_ids # {}
    /\ \E s \in SurvivingStops : s.job_id \in JobIdsOf(routes)

\* C10: after reoptimize every technician's current_load is the number of
\* its stops in the existing schedule whose job id is in the completed set.
C10_LoadIsCompletedCount ==
    call = "reoptimize" =>
        \A ti \in 1..Len(technicians) :
            technicians[ti].current_load =
                Cardinality({ k \in 1..Len(RouteOf(existing_routes, technicians[ti].id)) :
                    RouteOf(existing_routes, technicians[ti].id)[k].job_id \in completed_job_ids })

\* one technician's load dropped from 1 to 0, another's rose from 0
C10_Witness ==
    /\ call = "reoptimize"
    /\ Returned
    /\ \E ti \in 1..Len(technicians) :
          prior_load[ti] = 1 /\ technicians[ti].current_load = 0
    /\ \E ti \in 1..Len(technicians) :
          prior_load[ti] = 0 /\ technicians[ti].current_load >= 1

\* C11: reoptimize leaves the existing schedule as it was given (same
\* technician keys, same stops in the same order, same fields) throughout the
\* call and after it, and the schedule it returns is built from nothing: the
\* call starts from empty routes and every returned stop is made from a job
\* of the call.
C11_ExistingUnmodified ==
    [][ /\ pc = "done" =>
              /\ existing_routes' = routes
              /\ routes' = EmptySchedule
              /\ solver_routes' = EmptySchedule
        /\ pc # "done" => existing_routes' = existing_routes
        /\ (call' = "reoptimize" /\ pc' = "done") =>
              \A s \in StopsOf(routes') : \E ji \in 1..Len(jobs') :
                  /\ s.job_id = jobs'[ji].id
                  /\ s.lat = jobs'[ji].lat
                  /\ s.service_minutes = jobs'[ji].estimated_duration \div 60 ]_vars

\* a schedule with a completed and a surviving stop was re-planned, and the
\* returned schedule differs from it
C11_Witness ==
    /\ call = "reoptimize"
    /\ Returned
    /\ completed_job_ids # {}
    /\ TotalStops(existing_routes) >= 2
    /\ JobIdsOf(existing_routes) \cap completed_job_ids # {}
    /\ TotalStops(routes) >= 1
    /\ routes # existing_routes

\* the jobs of the call that are in no stop of the returned schedule
OmittedJobs == { ji \in 1..Len(jobs) : jobs[ji].id \notin JobIdsOf(routes) }

\* C12: when the fallback has returned, for every job left out every
\* technician is at capacity (its load, current_load plus the stops it got,
\* is at least max_capacity) or lacks a required skill of the job; the number
\* of jobs left out is the number of jobs minus the number of stops.
C12_OmittedInfeasible ==
    (Returned /\ path = "greedy") =>
        /\ \A ji \in OmittedJobs : \A ti \in 1..Len(technicians) :
              \/ technicians[ti].current_load + Len(routes[technicians[ti].id])
                    >= technicians[ti].max_capacity
              \/ ~ (jobs[ji].required_skills \subseteq technicians[ti].skills)
        /\ Cardinality(OmittedJobs) = Len(jobs) - TotalStops(routes)

\* a job is left out although a technician has its skills (that technician is
\* full), next to a technician with a free slot who lacks a skill
C12_Witness ==
    /\ Returned
    /\ path = "greedy"
    /\ TotalStops(routes) >= 1
    /\ \E ji \in OmittedJobs :
          /\ \E ti \in 1..Len(technicians) :
                jobs[ji].required_skills \subseteq technicians[ti].skills
          /\ \E ti \in 1..Len(technicians) :
                technicians[ti].current_load + Len(routes[technicians[ti].id])
                    < technicians[ti].max_capacity

\* C13: the fallback's main loop runs at most Len(jobs) rounds; a step of the
\* fallback either assigns exactly one job that was not assigned before (one
\* more round, one more stop) or ends the loop and returns the routes as
\* they are; and the fallback, once entered, returns.
C13_GreedyTerminates ==
    /\ [](pc = "greedy" => (iter <= Len(jobs) /\ Cardinality(assigned_jobs) = iter))
    /\ [][pc = "greedy" =>
            \/ /\ pc' = "greedy"
               /\ iter' = iter + 1
               /\ \E ji \in (1..Len(jobs)) \ assigned_jobs :
                     assigned_jobs' = assigned_jobs \cup {ji}
               /\ TotalStops(routes') = TotalStops(routes) + 1
            \/ /\ pc' = "done"
               /\ routes' = routes]_vars
    /\ (pc = "greedy" ~> pc = "done")

\* the loop assigned a job in its first round and ended in the next with a
\* job left over
C13_Witness ==
    /\ Returned
    /\ path = "greedy"
    /\ iter >= 1
    /\ iter < Len(jobs)
    /\ TotalStops(routes) = iter

\* C18: with at least one technician and one job, the returned schedule has
\* one key per technician id of the call, also for a technician without a
\* stop, and every stop is stored under its own technician_id.
C18_OneEntryPerTechnician ==
    (Returned /\ Len(technicians) > 0 /\ Len(jobs) > 0) =>
        /\ DOMAIN routes = TechIds(technicians)
        /\ \A t \in DOMAIN routes : \A k \in 1..Len(routes[t]) :
              routes[t][k].technician_id = t

\* the solver's schedule for two technicians, one of them without a stop
C18_Witness ==
    /\ Returned
    /\ path = "solver"
    /\ Len(technicians) = 2
    /\ DOMAIN routes = {"t1", "t2"}
    /\ \E t \in DOMAIN routes : routes[t] = <<>>
    /\ \E t \in DOMAIN routes : Len(routes[t]) >= 1

\* C20: every technician's current_load is at most its max_capacity, after
\* optimize_routes and after reoptimize of a schedule the engine returned
\* for these technicians.
C20_LoadWithinCapacity ==
    \A ti \in 1..Len(technicians) :
        technicians[ti].current_load <= technicians[ti].max_capacity

\* reoptimize raised a technician's load to its max_capacity
C20_Witness ==
    /\ call = "reoptimize"
    /\ Returned
    /\ \E ti \in 1..Len(technicians) :
          /\ prior_load[ti] < technicians[ti].max_capacity
          /\ technicians[ti].current_load = technicians[ti].max_capacity


\* the provider did not answer 200 "Ok": it is not configured, the request
\* raised, or the answer carries an error status or another code
ProviderFailed ==
    \/ osrm_url = ""
    \/ osrm_response.kind = "raised"
    \/ /\ osrm_response.kind = "answer"
       /\ ~(osrm_response.status_code = 200 /\ osrm_response.code = "Ok")

\* C14: when the road-network provider is not configured, answers with a
\* non-OK result or raises, planning goes on with the haversine estimate as
\* its duration matrix (the call proceeds to the solver and returns a
\* schedule; the failure is absorbed inside the provider call), and the
\* provider is asked at most once per optimization.
C14_ProviderFailureFallsBack ==
    /\ osrm_calls <= 1
    /\ (osrm_url = "") => (osrm_calls = 0 /\ pc # "osrm")
    /\ (pc \in {"solver", "parsed", "greedy", "done"} /\ path # "empty" /\ ProviderFailed) =>
           /\ osrm_matrix = None
           /\ DurationMatrix(technicians, jobs) = build_duration_matrix(Points(technicians, jobs))
    /\ (Returned /\ path = "solver" /\ ProviderFailed) =>
           \E sol \in SolverSolutions(technicians, jobs) :
               /\ routes = ParseSolution(technicians, jobs, sol)
               /\ \A ti \in 1..Len(technicians) : \A k \in 1..Len(sol[ti]) :
                      routes[technicians[ti].id][k].travel_minutes =
                          build_duration_matrix(Points(technicians, jobs))
                              [StepPoint(technicians, ti, sol[ti], k - 1)]
                              [StepPoint(technicians, ti, sol[ti], k)] \div 60

C14_Witness ==
    /\ Returned
    /\ path = "solver"
    /\ osrm_calls = 1
    /\ osrm_response.kind = "answer"
    /\ osrm_response.status_code = 200
    /\ osrm_response.code = "NoTable"
    /\ TotalStops(routes) >= 1
    /\ \E s \in StopsOf(routes) : s.travel_minutes > 0


\* C15: when the solver's result is malformed (a job row names an unknown
\* vehicle or job, or there are no job rows although jobs are feasible), the
\* call treats it as a solver failure and returns the greedy schedule.
C15_MalformedFallsBack ==
    (Returned /\ solver_result = "malformed") =>
        /\ path = "greedy"
        /\ routes = greedy_fallback(technicians, jobs)

\* the parse loop agrees with the stops of a well-formed solution
ParseRowsAgrees ==
    (pc = "solver" /\ DistinctJobIds(jobs)) =>
        \A sol \in SolverSolutions(technicians, jobs) :
            ParseRows(technicians, jobs, SolutionRows(technicians, jobs, sol, 1),
                      Len(SolutionRows(technicians, jobs, sol, 1)))
                = ParseSolution(technicians, jobs, sol)


\* C16: in the report of estimate_savings the savings percentage is at least
\* 0 whenever the optimized distance (the sum of the stops' distances) is at
\* most the naive distance (that sum times the naive factor), it is 0 when
\* the optimized distance is 0, and jobs_assigned is the number of stops of
\* the schedule.
C16_SavingsReport ==
    savings # None =>
        /\ (1000 * TotalKm(savings.routes) <= NaiveMetres(savings.routes, savings.naive_factor))
               => savings.report.savings_pct >= 0
        /\ (TotalKm(savings.routes) = 0) => savings.report.savings_pct = 0
        /\ savings.report.jobs_assigned = TotalStops(savings.routes)

C16_Witness ==
    /\ savings # None
    /\ savings.routes = routes
    /\ savings.naive_factor = 1400
    /\ TotalKm(savings.routes) = 20
    /\ savings.report.jobs_assigned = 2
    /\ savings.report.savings_pct = 286
    /\ savings.report.naive_estimate_km = 280


\* the technicians as the caller of optimize_routes supplied them
TechsAtCall ==
    IF prior_load = <<>> \/ call = "reoptimize" THEN technicians
    ELSE [i \in 1..Len(technicians) |-> [technicians[i] EXCEPT !.current_load = prior_load[i]]]

\* the schedules a call returns when it runs alone, with the provider's
\* answer it received
AloneSchedules(techs, js) ==
    IF Len(techs) = 0 \/ Len(js) = 0 THEN {EmptySchedule}
    ELSE {greedy_fallback(techs, js)}
         \cup (IF DistinctJobIds(js)
               THEN { ParseSolution(techs, js, sol) : sol \in SolverSolutions(techs, js) }
               ELSE {})

\* C17: a call that runs concurrently with another call, interleaved at its
\* suspension points, returns a schedule it could return when running alone
\* on its inputs, also when both calls are given the same Technician objects.
C17_ConcurrentCallsIndependent ==
    Returned => routes \in AloneSchedules(TechsAtCall, jobs)


\* a square matrix of the size of the points, equal to its transpose, with a
\* zero diagonal
SymmetricZeroDiagonal(matrix, n) ==
    /\ Len(matrix) = n
    /\ \A i \in 1..n :
          /\ Len(matrix[i]) = n
          /\ matrix[i][i] = 0
          /\ \A j \in 1..n : matrix[i][j] = matrix[j][i]

\* C19: haversine gives the same distance in both directions and 0 from a
\* point to itself, and the duration and distance matrices built for N points
\* are N x N, symmetric and zero on the diagonal.
C19_DistanceSymmetric ==
    geo # None =>
        /\ geo.a # 0 => (geo.ab = geo.ba /\ geo.aa = 0)
        /\ geo.durations # None =>
               /\ SymmetricZeroDiagonal(geo.durations, Len(geo.points))
               /\ SymmetricZeroDiagonal(geo.distances, Len(geo.points))

C19_Witness ==
    /\ geo # None
    /\ geo.a # 0
    /\ geo.points[geo.a].lat # geo.points[geo.b].lat
    /\ geo.points[geo.a].lon # geo.points[geo.b].lon
    /\ geo.ab > 0
    /\ Len(geo.points) = 3
    /\ geo.durations # None
    /\ geo.durations[1][2] > 0
    /\ geo.durations[2][3] # geo.durations[1][2]
    /\ geo.distances[1][3] > 0


\* the step appends a stop for job c[1] to the route of technician c[2] and
\* touches no other route
AssignedInStep(c) ==
    LET tid == technicians[c[2]].id
    IN  /\ c[1] \notin assigned_jobs
        /\ assigned_jobs' = assigned_jobs \cup {c[1]}
        /\ Len(routes'[tid]) = Len(routes[tid]) + 1
        /\ routes'[tid][Len(routes'[tid])].job_id = jobs[c[1]].id
        /\ SubSeq(routes'[tid], 1, Len(routes[tid])) = routes[tid]
        /\ \A t \in DOMAIN routes \ {tid} : routes'[t] = routes[t]

\* travel duration from the technician's current position to the job
PairTravel(c) ==
    estimate_travel_seconds(
        haversine(Points(technicians, jobs)[tech_pos[technicians[c[2]].id]], jobs[c[1]].lat))

\* cost(c) <= cost(d), with cost = travel / max(priority, 1)
PairCostAtMost(c, d) ==
    PairTravel(c) * Max(jobs[d[1]].priority, 1) <= PairTravel(d) * Max(jobs[c[1]].priority, 1)

\* the pairs of an unassigned job and a technician under capacity that covers
\* the job's required skills
FeasiblePairs ==
    { c \in (1..Len(jobs)) \X (1..Len(technicians)) :
        /\ c[1] \notin assigned_jobs
        /\ tech_load[technicians[c[2]].id] < technicians[c[2]].max_capacity
        /\ jobs[c[1]].required_skills \subseteq technicians[c[2]].skills }

\* C21: in every round of the greedy fallback the pair that is assigned has
\* the minimum cost among the pairs of an unassigned job and a technician
\* under capacity covering its skills, cost being the travel duration from
\* the technician's current position divided by max(priority, 1).
C21_GreedyMinCost ==
    [][(pc = "greedy" /\ pc' = "greedy") =>
          \E c \in FeasiblePairs :
              /\ AssignedInStep(c)
              /\ \A d \in FeasiblePairs : PairCostAtMost(c, d)]_vars

C21_Witness ==
    /\ Returned
    /\ path = "greedy"
    /\ \E ti \in 1..Len(technicians) :
          LET r == routes[technicians[ti].id]
          IN  /\ Len(r) = 2
              /\ Abs(r[1].lat - technicians[ti].lat) > Abs(r[2].lat - technicians[ti].lat)
              /\ JobWithId(r[1].job_id).priority > JobWithId(r[2].job_id).priority


\* c comes before d in input order: first by job, then by technician
FirstInInputOrder(c, d) == c[1] < d[1] \/ (c[1] = d[1] /\ c[2] < d[2])

\* the pairs that are feasible when the fallback starts and have the minimum
\* cost from the technicians' homes
StartMinPairs ==
    LET start == { c \in (1..Len(jobs)) \X (1..Len(technicians)) :
                     /\ technicians[c[2]].current_load < technicians[c[2]].max_capacity
                     /\ jobs[c[1]].required_skills \subseteq technicians[c[2]].skills }
        Travel(c) == estimate_travel_seconds(haversine(technicians[c[2]].lat, jobs[c[1]].lat))
    IN  { c \in start : \A d \in start :
            Travel(c) * Max(jobs[d[1]].priority, 1) <= Travel(d) * Max(jobs[c[1]].priority, 1) }

\* C22: when several feasible pairs have the same minimum cost in a round of
\* the greedy fallback, the pair chosen is the one whose job comes first in
\* the job list and, among those, whose technician comes first in the
\* technician list; the schedule returned is a function of the inputs.
C22_TieByInputOrder ==
    /\ [][(pc = "greedy" /\ pc' = "greedy") =>
             \E c \in FeasiblePairs :
                 /\ AssignedInStep(c)
                 /\ \A d \in FeasiblePairs \ {c} :
                        (PairCostAtMost(c, d) /\ PairCostAtMost(d, c)) => FirstInInputOrder(c, d)]_vars
    /\ []((Returned /\ path = "greedy") => routes = greedy_fallback(technicians, jobs))

C22_Witness ==
    /\ Returned
    /\ path = "greedy"
    /\ \E c, d, e \in StartMinPairs :
          /\ c[1] < d[1]
          /\ c[1] = e[1]
          /\ c[2] < e[2]
          /\ \A x \in StartMinPairs \ {c} : FirstInInputOrder(c, x)
          /\ Len(routes[technicians[c[2]].id]) >= 1
          /\ routes[technicians[c[2]].id][1].job_id = jobs[c[1]].id


\* the bookkeeping of a round that assigns job c[1] to technician c[2]
StopAndLocalsUpdated(c) ==
    LET tech == technicians[c[2]]
        tid == tech.id
        job == jobs[c[1]]
        first == Len(routes[tid]) = 0
        from_lat == IF first THEN tech.lat ELSE routes[tid][Len(routes[tid])].lat
        travel == estimate_travel_seconds(haversine(from_lat, job.lat))
        stop == routes'[tid][Len(routes'[tid])]
    IN  /\ first => tech_time[tid] = tech.available_from
        /\ ~ first => ClockTime(tech_time[tid]) = routes[tid][Len(routes[tid])].departure_time
        /\ Points(technicians, jobs)[tech_pos[tid]] = from_lat
        /\ stop.arrival_time = ClockTime(tech_time[tid] + travel)
        /\ stop.departure_time = ClockTime(tech_time[tid] + travel + job.estimated_duration)
        /\ stop.technician_id = tid
        /\ stop.lat = job.lat
        /\ tech_pos'[tid] = Len(technicians) + c[1]
        /\ tech_time'[tid] = tech_time[tid] + travel + job.estimated_duration
        /\ tech_load'[tid] = tech_load[tid] + 1
        /\ \A t \in DOMAIN tech_time \ {tid} :
              /\ tech_pos'[t] = tech_pos[t]
              /\ tech_time'[t] = tech_time[t]
              /\ tech_load'[t] = tech_load[t]

\* C23: for every stop the greedy fallback appends, arrival is the
\* technician's current departure time (available_from before the first
\* stop) plus the travel time from the current position (home before the
\* first stop, else the previous stop's location), departure is arrival plus
\* the job's estimated_duration; afterwards that technician's position, time
\* and load are the job's location, the departure and one more, and every
\* other technician's are unchanged.
C23_StopTimesAndLocals ==
    [][(pc = "greedy" /\ pc' = "greedy") =>
          \E c \in (1..Len(jobs)) \X (1..Len(technicians)) :
              AssignedInStep(c) /\ StopAndLocalsUpdated(c)]_vars

C23_Witness ==
    /\ pc = "greedy"
    /\ Len(technicians) = 2
    /\ \E t \in DOMAIN routes :
          /\ Len(routes[t]) = 2
          /\ routes[t][2].travel_minutes > 0
          /\ routes[t][2].arrival_time = routes[t][1].departure_time + routes[t][2].travel_minutes
          /\ tech_load[t] = TechById(technicians, t).current_load + 2
          /\ tech_time[t] > TechById(technicians, t).available_from
          /\ \E u \in DOMAIN routes \ {t} :
                /\ Len(routes[u]) = 0
                /\ tech_time[u] = TechById(technicians, u).available_from


\* the stop's arrival, a minute of the day, lies inside the job's window
ArrivalInWindow(stop, job) ==
    /\ job.time_window_start # NoTime => stop.arrival_time >= job.time_window_start \div 60
    /\ job.time_window_end # NoTime => stop.arrival_time <= job.time_window_end \div 60

\* C24: in every schedule returned by optimize_routes, including one built
\* by the greedy fallback, a stop whose job has a time window has its arrival
\* inside that window; a job that cannot be reached inside its window is left
\* unassigned.  Stated here for the schedules of the greedy fallback.
C24_GreedyArrivalInWindow ==
    (Returned /\ path = "greedy") =>
        \A s \in StopsOf(routes) :
            HasWindow(JobWithId(s.job_id)) => ArrivalInWindow(s, JobWithId(s.job_id))


\* the stop's arrival and departure, minutes of the day, lie inside the
\* technician's working hours
InsideWorkingHours(stop, tech) ==
    /\ tech.available_from \div 60 <= stop.arrival_time
    /\ stop.arrival_time <= stop.departure_time
    /\ stop.departure_time <= tech.available_to \div 60

\* C25: in every schedule returned by optimize_routes, including one built
\* by the greedy fallback, every stop's arrival and departure lie inside the
\* assigned technician's working hours.  Stated here for the schedules of the
\* greedy fallback.
C25_GreedyInsideWorkingHours ==
    (Returned /\ path = "greedy") =>
        \A t \in DOMAIN routes : \A k \in 1..Len(routes[t]) :
            InsideWorkingHours(routes[t][k], TechById(technicians, t))

\* the same for the schedules built from a solution of the solver
SolverInsideWorkingHours ==
    (Returned /\ path = "solver") =>
        \A t \in DOMAIN routes : \A k \in 1..Len(routes[t]) :
            InsideWorkingHours(routes[t][k], TechById(technicians, t))


\* job hi is left out although job lo, of strictly lower priority and with
\* the same required skills, is in the route of a technician who could have
\* served hi
PriorityInversion(hi, lo) ==
    /\ jobs[hi].id \notin JobIdsOf(routes)
    /\ jobs[lo].priority < jobs[hi].priority
    /\ jobs[lo].required_skills = jobs[hi].required_skills
    /\ \E ti \in 1..Len(technicians) :
          /\ \E k \in 1..Len(routes[technicians[ti].id]) :
                routes[technicians[ti].id][k].job_id = jobs[lo].id
          /\ jobs[hi].required_skills \subseteq technicians[ti].skills

\* C27 as stated: no job is left unassigned while a job of strictly lower
\* priority, with the same required skills, is assigned to a technician who
\* could have served the higher-priority job.
C27_PrefersPriority ==
    Returned => \A hi, lo \in 1..Len(jobs) : ~ PriorityInversion(hi, lo)

\* C27, amended: a round of the greedy fallback never assigns a job to a
\* technician after a travel of more than zero seconds while an unassigned
\* job of higher priority (counted as max(priority, 1)) that the technician's
\* skills cover is no farther from the technician's current position.
C27_GreedyPrefersPriorityNearby ==
    [][(pc = "greedy" /\ pc' = "greedy") =>
          \E c \in FeasiblePairs :
              /\ AssignedInStep(c)
              /\ PairTravel(c) > 0 =>
                    ~ \E hi \in (1..Len(jobs)) \ assigned_jobs :
                          /\ Max(jobs[hi].priority, 1) > Max(jobs[c[1]].priority, 1)
                          /\ jobs[hi].required_skills \subseteq technicians[c[2]].skills
                          /\ PairTravel(<<hi, c[2]>>) <= PairTravel(c)]_vars

C27_Witness ==
    /\ Returned
    /\ path = "greedy"
    /\ \E hi, lo \in 1..Len(jobs) : \E ti \in 1..Len(technicians) :
          /\ jobs[lo].priority < jobs[hi].priority
          /\ jobs[lo].id \notin JobIdsOf(routes)
          /\ hi < lo
          /\ Len(routes[technicians[ti].id]) = 1
          /\ routes[technicians[ti].id][1].job_id = jobs[hi].id
          /\ Abs(jobs[hi].lat - technicians[ti].lat) = Abs(jobs[lo].lat - technicians[ti].lat)
          /\ jobs[hi].lat # technicians[ti].lat
          /\ jobs[lo].required_skills \subseteq technicians[ti].skills


\* C29: optimize_routes leaves its inputs unchanged: no step of the call
\* changes a technician's current_load, position or working hours or any
\* field of a job, also when the greedy fallback assigns stops.
C29_InputsUnchanged ==
    [][call' = "optimize_routes" => (technicians' = technicians /\ jobs' = jobs)]_vars

C29_Witness ==
    /\ Returned
    /\ call = "optimize_routes"
    /\ path = "greedy"
    /\ \E ti \in 1..Len(technicians) :
          /\ Len(routes[technicians[ti].id]) = 2
          /\ technicians[ti].current_load = 0
          /\ tech_load[technicians[ti].id] = 2

\* a stop of the schedule reoptimize returned that re-plans a job of the
\* schedule it was given (lines 432-442)
SurvivorStop(stop) == stop.job_id \in JobIdsOf(existing_routes) \ completed_job_ids

\* C26: after optimize_routes followed by reoptimize, every surviving job is
\* assigned only to a technician whose skills cover the required skills the
\* job had when it was first planned.
C26_SurvivorsKeepSkills ==
    (Returned /\ call = "reoptimize") =>
        \A t \in DOMAIN routes : \A k \in 1..Len(routes[t]) :
            SurvivorStop(routes[t][k]) =>
                first_required[routes[t][k].job_id] \subseteq TechById(technicians, t).skills

\* a survivor that needed both skills is served by a technician who has one
C26_SurvivorLostSkills ==
    /\ Returned
    /\ call = "reoptimize"
    /\ \E t \in DOMAIN routes : \E k \in 1..Len(routes[t]) :
          /\ SurvivorStop(routes[t][k])
          /\ first_required[routes[t][k].job_id] = {"hvac", "refrigeration"}
          /\ TechById(technicians, t).skills = {"hvac"}

\* C28: across any sequence of reoptimize calls, each given the schedule the
\* previous call returned and the jobs completed so far, the jobs a
\* technician has completed plus the stops of the technician's current route
\* never exceed max_capacity.
C28_CapacityOverTheDay ==
    (Returned /\ call = "reoptimize") =>
        \A ti \in 1..Len(technicians) :
            Cardinality(completed_by[technicians[ti].id])
                + Len(RouteOf(routes, technicians[ti].id)) <= technicians[ti].max_capacity

\* the completed jobs of the call alone, which is what line 448 counts, do
\* stay within the capacity together with the new route
C28_CapacityOfOneCall ==
    (Returned /\ call = "reoptimize") =>
        \A ti \in 1..Len(technicians) :
            CompletedCount(technicians[ti], existing_routes, completed_job_ids)
                + Len(RouteOf(routes, technicians[ti].id)) <= technicians[ti].max_capacity

\* a technician has completed max_capacity jobs and is given one more
C28_OverCapacity ==
    /\ Returned
    /\ call = "reoptimize"
    /\ \E ti \in 1..Len(technicians) :
          /\ Cardinality(completed_by[technicians[ti].id]) = technicians[ti].max_capacity
          /\ Len(RouteOf(routes, technicians[ti].id)) > 0

\* the ids returned so far: one id per tag, one tag per id, and the id the
\* dict holds for the tag
ReturnedIdsConsistent ==
    /\ \A p, q \in skill_returned : (p[1] = q[1]) <=> (p[2] = q[2])
    /\ \A p \in skill_returned : p[1] \in DOMAIN SKILL_IDS /\ SKILL_IDS[p[1]] = p[2]

\* an entry of the dict is never removed nor given another id
SkillIdsKept ==
    \A tag \in DOMAIN SKILL_IDS : tag \in DOMAIN SKILL_IDS' /\ SKILL_IDS'[tag] = SKILL_IDS[tag]

\* C30: after any sequence of _skill_to_id calls, including calls
\* interleaved from concurrent optimization runs, the mapping is consistent:
\* the same tag always gets the same id, two distinct tags never share an
\* id, and an id once given to a tag never changes.
C30_SkillIdsConsistent ==
    /\ [](ReturnedIdsConsistent)
    /\ [][SkillIdsKept]_vars

\* two runs have made all their calls, both asked for a tag the other asked
\* for too, and three tags have their ids
C30_Witness ==
    /\ Len(skill_runs) >= 2
    /\ \A r \in 1..Len(skill_runs) : skill_runs[r] = <<>>
    /\ Cardinality(skill_returned) = 3
    /\ DOMAIN SKILL_IDS = Range(SkillTags)
    /\ next_skill_id = 4

\* the dict the solver path leaves behind gives every tag an id of its own
SkillTableInjective ==
    /\ \A a, b \in DOMAIN SKILL_IDS : SKILL_IDS[a] = SKILL_IDS[b] => a = b
    /\ \A a \in DOMAIN SKILL_IDS : SKILL_IDS[a] < next_skill_id

====
